---- MODULE Spec2Model ----
(***************************************************************************)
(* GeoS4 core: spatial transformation of a point set, adaptive grid        *)
(* dimensions, mapping of points to sequencer cells.                       *)
(*                                                                         *)
(* Coordinates are exact rationals <<numerator, denominator>>; the         *)
(* source's binary floating point is modelled by exact arithmetic, so      *)
(* rounding error of a float operation is outside the model.               *)
(***************************************************************************)
EXTENDS Integers, Sequences, FiniteSets, TLC

VARIABLES
    city_gdf,           \* the boundary handed to the core (or None)
    points_gdf,         \* the working point set (or None)
    num_steps,          \* grid configuration handed to the mapper
    num_tracks,
    active_cells_data,  \* result of process_points_to_sequencer
    grid_config,        \* result of calculate_optimal_grid_dimensions
    fetched_gdf,        \* the point set as supplied by the geometry provider
    transformation,     \* transformation_type
    kwargs,             \* transformation parameters
    entropy,            \* one period of the process-wide random stream
    rng,                \* number of draws consumed from the stream so far
    runs,               \* log of the calls of apply_spatial_transformation
    input_gdf,          \* the frame handed to convert_gdf_to_geojson
    geojson,            \* result of convert_gdf_to_geojson
    layer_data,         \* the layer handed to the union functions
    union_result,       \* result of create_layer_union
    union_data,         \* result of create_layer_union_for_sequencer
    stored_layers,      \* st.session_state.stored_layers: id -> layer object
    heap,               \* the layer objects, by reference
    current_layer,      \* st.session_state.current_layer: a reference (0: None)
    session_pattern,    \* the generated pattern held in st.session_state
    sequencer_data,     \* what the Play tab last prepared for the sequencer
    layer_maps          \* what the Layers tab last showed, by layer id

coreVars == <<city_gdf, points_gdf, num_steps, num_tracks, active_cells_data,
              grid_config, fetched_gdf, transformation, kwargs, entropy, rng, runs>>
geojsonVars == <<input_gdf, geojson>>
unionVars == <<layer_data, union_result, union_data>>
sessionVars == <<stored_layers, heap, current_layer, session_pattern,
                 sequencer_data, layer_maps>>

vars == <<coreVars, geojsonVars, unionVars, sessionVars>>

-----------------------------------------------------------------------------
(* Bounds of the model *)

MaxPoints == 4         \* longest point set handed to the mapper
MaxXformPoints == 3    \* longest point set handed to a transformation
EntropyPeriod == 2     \* period of the random stream
MaxRows == 3           \* most rows of a frame handed to convert_gdf_to_geojson
MaxPatterns == 3       \* most patterns of a layer handed to the union functions
MaxCalls == 2          \* calls of apply_spatial_transformation in one run
MaxStoredPatterns == 3 \* most patterns held by the stored layers together

-----------------------------------------------------------------------------
(* Exact rational arithmetic standing for the source's float arithmetic *)

Abs(n) == IF n < 0 THEN -n ELSE n
Min2(a, b) == IF a <= b THEN a ELSE b
Max2(a, b) == IF a >= b THEN a ELSE b

RECURSIVE GCD(_, _)
GCD(a, b) == IF b = 0 THEN a ELSE GCD(b, a % b)

Rat(n, d) ==
    LET s == IF d < 0 THEN -1 ELSE 1
        g == GCD(Abs(n), Abs(d))
    IN  <<(s * n) \div g, (s * d) \div g>>

R(n) == <<n, 1>>
RAdd(a, b) == Rat(a[1] * b[2] + b[1] * a[2], a[2] * b[2])
RSub(a, b) == Rat(a[1] * b[2] - b[1] * a[2], a[2] * b[2])
RMul(a, b) == Rat(a[1] * b[1], a[2] * b[2])
RDiv(a, b) == Rat(a[1] * b[2], a[2] * b[1])
RAbs(a) == <<Abs(a[1]), a[2]>>
RFloor(a) == a[1] \div a[2]
\* a <= b: the integer parts first, then the fractional parts, which keeps
\* the products small
RLe(a, b) ==
    LET fa == RFloor(a)
        fb == RFloor(b)
    IN  IF fa # fb THEN fa < fb
        ELSE (a[1] - fa * a[2]) * b[2] <= (b[1] - fb * b[2]) * a[2]
RLt(a, b) == ~RLe(b, a)

\* Python int(): truncation toward zero
RTrunc(a) == IF a[1] >= 0 THEN a[1] \div a[2] ELSE -((-a[1]) \div a[2])

\* Python round(): to the nearest integer, a tie to the even one
RRound(a) ==
    LET f == RFloor(a)
        twice == 2 * (a[1] - f * a[2])     \* 2 * fractional part * a[2]
    IN  IF twice < a[2] THEN f
        ELSE IF twice > a[2] THEN f + 1
        ELSE IF f % 2 = 0 THEN f ELSE f + 1

RECURSIVE RSum(_)
RSum(s) == IF s = <<>> THEN R(0) ELSE RAdd(RSum(Tail(s)), Head(s))

\* np.mean of a non-empty list
Mean(s) == RDiv(RSum(s), R(Len(s)))

Point(x, y) == [x |-> x, y |-> y]
IPoint(x, y) == Point(R(x), R(y))

-----------------------------------------------------------------------------
(* GeoDataFrames: None, or a frame with its rows *)

NoneGdf == [isNone |-> TRUE, geometry |-> <<>>]
PointsGdf(pts) == [isNone |-> FALSE, geometry |-> pts]

NoneCity == [isNone |-> TRUE, minx |-> 0, miny |-> 0, maxx |-> 0, maxy |-> 0, area |-> 0]
\* a boundary: the bounds and the area of city_gdf.unary_union
City(x0, y0, x1, y1, a) ==
    [isNone |-> FALSE, minx |-> x0, miny |-> y0, maxx |-> x1, maxy |-> y1, area |-> a]

-----------------------------------------------------------------------------
(* process_points_to_sequencer *)

LngStep(city, steps) == RDiv(R(city.maxx - city.minx), R(steps))
LatStep(city, tracks) == RDiv(R(city.maxy - city.miny), R(tracks))

StepIndex(p, city, steps) ==
    Min2(RTrunc(RDiv(RSub(p.x, R(city.minx)), LngStep(city, steps))), steps - 1)

TrackIndex(p, city, tracks) ==
    Max2(0, Min2(tracks - 1 - RTrunc(RDiv(RSub(p.y, R(city.miny)), LatStep(city, tracks))),
                 tracks - 1))

CellKey(p, city, steps, tracks) ==
    <<TrackIndex(p, city, tracks), StepIndex(p, city, steps)>>

\* a slip: the cell's list is replaced instead of extended
AddToCellOverwriting(occ, key, entry) ==
    IF \E i \in 1..Len(occ) : occ[i].key = key
    THEN [i \in 1..Len(occ) |->
            IF occ[i].key = key
            THEN [occ[i] EXCEPT !.points_in_cell = <<entry>>]
            ELSE occ[i]]
    ELSE Append(occ, [key |-> key, points_in_cell |-> <<entry>>])

\* cell_occupancy[key].append(entry), the dict keeping its insertion order
AddToCell(occ, key, entry) ==
    IF \E i \in 1..Len(occ) : occ[i].key = key
    THEN [i \in 1..Len(occ) |->
            IF occ[i].key = key
            THEN [occ[i] EXCEPT !.points_in_cell = Append(@, entry)]
            ELSE occ[i]]
    ELSE Append(occ, [key |-> key, points_in_cell |-> <<entry>>])

\* the loop over enumerate(points_gdf.geometry), after n points
RECURSIVE CellOccupancy(_, _, _, _, _)
CellOccupancy(pts, n, city, steps, tracks) ==
    IF n = 0 THEN <<>>
    ELSE AddToCell(CellOccupancy(pts, n - 1, city, steps, tracks),
                   CellKey(pts[n], city, steps, tracks),
                   [point_lng |-> pts[n].x, point_lat |-> pts[n].y, point_id |-> n - 1])

\* a slip: the cell's first point stands for the cell instead of the centroid
ActiveCellFirstPoint(c, city, steps, tracks) ==
    LET n == Len(c.points_in_cell)
        area == RMul(LngStep(city, steps), LatStep(city, tracks))
    IN  [track |-> c.key[1],
         step |-> c.key[2],
         point_lng |-> c.points_in_cell[1].point_lng,
         point_lat |-> c.points_in_cell[1].point_lat,
         point_id |-> c.points_in_cell[1].point_id,
         point_count |-> n,
         point_density |-> IF RLt(R(0), area) THEN RDiv(R(n), area) ELSE R(0)]

CellArea(city, steps, tracks) == RMul(LngStep(city, steps), LatStep(city, tracks))

ActiveCell(c, city, steps, tracks) ==
    LET n == Len(c.points_in_cell)
        area == CellArea(city, steps, tracks)
    IN  [track |-> c.key[1],
         step |-> c.key[2],
         point_lng |-> Mean([i \in 1..n |-> c.points_in_cell[i].point_lng]),
         point_lat |-> Mean([i \in 1..n |-> c.points_in_cell[i].point_lat]),
         point_id |-> c.points_in_cell[1].point_id,
         point_count |-> n,
         point_density |-> IF RLt(R(0), area) THEN RDiv(R(n), area) ELSE R(0)]

NoGridBounds ==
    [lng_step |-> R(0), lat_step |-> R(0), num_steps |-> 0, num_tracks |-> 0,
     total_points |-> 0, active_cells_count |-> 0, grid_efficiency |-> R(0)]

Outcome(st) == [status |-> st, active_cells |-> <<>>, grid_bounds |-> NoGridBounds]

\* status: "none" the None result, "raise" an exception leaves the function,
\* "ok" the dictionary of active cells and grid bounds
process_points_to_sequencer(city, pts, steps, tracks) ==
    IF city.isNone \/ pts.isNone THEN Outcome("none")
    ELSE IF pts.geometry # <<>>
            /\ (city.maxx = city.minx \/ city.maxy = city.miny)
    THEN Outcome("raise")      \* float division by zero at the first point
    ELSE
        LET occ == CellOccupancy(pts.geometry, Len(pts.geometry), city, steps, tracks)
            cells == [i \in 1..Len(occ) |-> ActiveCell(occ[i], city, steps, tracks)]
        IN  [status |-> "ok",
             active_cells |-> cells,
             grid_bounds |->
                [lng_step |-> LngStep(city, steps),
                 lat_step |-> LatStep(city, tracks),
                 num_steps |-> steps,
                 num_tracks |-> tracks,
                 total_points |-> Len(pts.geometry),
                 active_cells_count |-> Len(cells),
                 grid_efficiency |-> Rat(Len(cells), steps * tracks)]]

-----------------------------------------------------------------------------
(* The process-wide random source: a periodic stream of uniform draws *)

\* the draw at position pos of the stream whose period is tape
Draw(tape, pos) == tape[(pos % Len(tape)) + 1]
DrawsFrom(tape, pos, n) == [i \in 1..n |-> Draw(tape, pos + i - 1)]

\* a slip: the index follows the position of the stream as well as the draw
ChoiceIndexByPosition(u, n) == (RFloor(RMul(u, R(n))) + rng) % n

\* np.random.choice(n), random.choice(seq): an index from a uniform draw u
ChoiceIndex(u, n) == RFloor(RMul(u, R(n)))

\* samples as functions of the uniform draw: normal(0, s) = s * z and
\* exponential(s) = s * e for a standard sample z or e, for which a monotone
\* map of u stands; uniform(lo, hi) = lo + (hi - lo) * u
StdNormal(u) == RSub(RMul(R(4), u), R(2))
StdExponential(u) == RMul(R(2), u)
Uniform(lo, hi, u) == RAdd(lo, RMul(RSub(hi, lo), u))
Sign(u) == IF ChoiceIndex(u, 2) = 0 THEN R(-1) ELSE R(1)

-----------------------------------------------------------------------------
(* apply_spatial_transformation: Clustering *)

MaxIterations == 20

\* the square root of a perfect square; of nothing else
ISqrt(n) == CHOOSE x \in 0..n : x * x = n

\* np.linalg.norm, cdist: the Euclidean distance, exact on the model's
\* collinear point sets
Distance(p, q) ==
    LET dx == RSub(p.x, q.x)
        dy == RSub(p.y, q.y)
        sq == RAdd(RMul(dx, dx), RMul(dy, dy))
    IN  <<ISqrt(sq[1]), ISqrt(sq[2])>>

RECURSIVE RMinimum(_)
RMinimum(s) ==
    IF Len(s) = 1 THEN s[1]
    ELSE LET m == RMinimum(Tail(s)) IN IF RLe(s[1], m) THEN s[1] ELSE m

\* distance of every coordinate to its nearest chosen centroid
NearestDistances(coords, centroids) ==
    [i \in 1..Len(coords) |->
        RMinimum([c \in 1..Len(centroids) |-> Distance(coords[i], centroids[c])])]

\* np.searchsorted(cumulative_probs, r): the number of entries below r; with
\* all distances zero the probabilities are nan and the index is 0
SearchSorted(distances, r) ==
    LET total == RSum(distances)
        cum(i) == RDiv(RSum(SubSeq(distances, 1, i)), total)
    IN  IF total = R(0) THEN 0
        ELSE Cardinality({i \in 1..Len(distances) : RLt(cum(i), r)})

\* k-means++ initialisation: the centroids after the first and `more` further
\* draws, the stream read from position pos
RECURSIVE Seeds(_, _, _, _)
Seeds(coords, more, tape, pos) ==
    IF more <= 0 THEN <<coords[ChoiceIndex(Draw(tape, pos), Len(coords)) + 1]>>
    ELSE LET sofar == Seeds(coords, more - 1, tape, pos)
             i == SearchSorted(NearestDistances(coords, sofar), Draw(tape, pos + more))
         IN  Append(sofar, coords[i + 1])

\* np.argmin over the distances to the centroids: the first nearest one
Label(p, centroids) ==
    LET ds == [c \in 1..Len(centroids) |-> Distance(p, centroids[c])]
    IN  CHOOSE c \in 1..Len(ds) :
            /\ \A d \in 1..Len(ds) : RLe(ds[c], ds[d])
            /\ \A d \in 1..(c - 1) : ~RLe(ds[d], ds[c])

\* labels = np.argmin(cdist(coords, centroids), axis=1)
Labels(coords, centroids) == [i \in 1..Len(coords) |-> Label(coords[i], centroids)]

\* coords[labels == k]
ClusterPoints(coords, labels, k) ==
    LET RECURSIVE Pick(_)
        Pick(n) == IF n = 0 THEN <<>>
                   ELSE IF labels[n] = k THEN Append(Pick(n - 1), coords[n])
                   ELSE Pick(n - 1)
    IN  Pick(Len(coords))

MeanPoint(pts) ==
    Point(Mean([i \in 1..Len(pts) |-> pts[i].x]), Mean([i \in 1..Len(pts) |-> pts[i].y]))

\* a slip: a centroid without points is dropped instead of kept
RECURSIVE UpdateCentroidsDropping(_, _, _, _)
UpdateCentroidsDropping(coords, centroids, labels, k) ==
    IF k <= 0 THEN <<>>
    ELSE LET cluster_points == ClusterPoints(coords, labels, k)
             before == UpdateCentroidsDropping(coords, centroids, labels, k - 1)
         IN  IF Len(cluster_points) > 0 THEN Append(before, MeanPoint(cluster_points))
             ELSE before

\* new_centroids for the clusters 1..k: the mean of the cluster, or the old
\* centroid when the cluster is empty
RECURSIVE UpdateCentroids(_, _, _, _)
UpdateCentroids(coords, centroids, labels, k) ==
    IF k <= 0 THEN <<>>
    ELSE LET cluster_points == ClusterPoints(coords, labels, k)
         IN  Append(UpdateCentroids(coords, centroids, labels, k - 1),
                    IF Len(cluster_points) > 0 THEN MeanPoint(cluster_points)
                    ELSE centroids[k])

\* np.isclose(a, b, atol=1e-6) with the default rtol=1e-5:
\* |a - b| <= 1e-6 + 1e-5 * |b|
IsClose(a, b) ==
    RLe(RMul(R(1000000), RAbs(RSub(a, b))), RAdd(R(1), RMul(R(10), RAbs(b))))

AllClose(old, new) ==
    /\ Len(old) = Len(new)
    /\ \A i \in 1..Len(old) : IsClose(old[i].x, new[i].x) /\ IsClose(old[i].y, new[i].y)

\* the values the loop variable centroids takes, with `left` iterations to
\* go: the loop ends at the cap or when an iteration moves no centroid
RECURSIVE LloydTrace(_, _, _, _)
LloydTrace(coords, centroids, k, left) ==
    IF left = 0 THEN <<centroids>>
    ELSE LET new_centroids ==
                UpdateCentroids(coords, centroids, Labels(coords, centroids), k)
         IN  IF AllClose(centroids, new_centroids) THEN <<centroids>>
             ELSE <<centroids>> \o LloydTrace(coords, new_centroids, k, left - 1)

\* the courses of the Clustering branch, for len(coords) >= k >= 1: the
\* seeds, then the centroids after every iteration that moved one
ClusteringTrace(coords, k, tape, pos, iterations) ==
    LloydTrace(coords, Seeds(coords, k - 1, tape, pos), k, iterations)

\* the centroids the branch ends with
Clustering(coords, k, tape, pos, iterations) ==
    LET trace == ClusteringTrace(coords, k, tape, pos, iterations)
    IN  trace[Len(trace)]

-----------------------------------------------------------------------------
(* apply_spatial_transformation: Grid Alignment *)

\* a slip: the coordinate is cut down to a multiple instead of rounded
SnapDown(v, grid_size) == RMul(R(RFloor(RDiv(v, grid_size))), grid_size)

Snap(v, grid_size) == RMul(R(RRound(RDiv(v, grid_size))), grid_size)

GridKey(p, grid_size) == <<Snap(p.x, grid_size), Snap(p.y, grid_size)>>

\* grid_cells[cell_key].append(point), the dict keeping its insertion order
AddToGridCell(cells, key, p) ==
    IF \E i \in 1..Len(cells) : cells[i].key = key
    THEN [i \in 1..Len(cells) |->
            IF cells[i].key = key
            THEN [cells[i] EXCEPT !.cell_points = Append(@, p)]
            ELSE cells[i]]
    ELSE Append(cells, [key |-> key, cell_points |-> <<p>>])

RECURSIVE GridCells(_, _, _)
GridCells(pts, n, grid_size) ==
    IF n = 0 THEN <<>>
    ELSE AddToGridCell(GridCells(pts, n - 1, grid_size), GridKey(pts[n], grid_size), pts[n])

\* 30% of the offset of the cell's mean from the grid node
Blend(grid, avg) == RAdd(grid, RMul(RSub(avg, grid), <<3, 10>>))

\* a slip: the 30% rule applied to a cell with one point as well
CellRepresentativeBlended(cell) ==
    LET avg == MeanPoint(cell.cell_points)
    IN  Point(Blend(cell.key[1], avg.x), Blend(cell.key[2], avg.y))

CellRepresentative(cell) ==
    IF Len(cell.cell_points) = 1 THEN Point(cell.key[1], cell.key[2])
    ELSE LET avg == MeanPoint(cell.cell_points)
         IN  Point(Blend(cell.key[1], avg.x), Blend(cell.key[2], avg.y))

GridAlignment(pts, grid_size) ==
    LET cells == GridCells(pts, Len(pts), grid_size)
    IN  [i \in 1..Len(cells) |-> CellRepresentative(cells[i])]

-----------------------------------------------------------------------------
(* apply_spatial_transformation: Noise Addition *)

NoisePatterns == <<"gaussian", "uniform", "exponential">>

\* the perturbation of one point, the stream read from position pos:
\* the point, the draws consumed, and whether numpy raised (scale < 0)
NoisyPoint(p, noise_level, tape, pos) ==
    LET pattern == NoisePatterns[ChoiceIndex(Draw(tape, pos), 3) + 1]
        u(i) == Draw(tape, pos + i)
    IN  IF pattern = "gaussian"
        THEN IF RLt(noise_level, R(0))
             THEN [raised |-> TRUE, point |-> p, drawn |-> 1]
             ELSE [raised |-> FALSE, drawn |-> 3,
                   point |-> Point(RAdd(p.x, RMul(noise_level, StdNormal(u(1)))),
                                   RAdd(p.y, RMul(noise_level, StdNormal(u(2)))))]
        ELSE IF pattern = "uniform"
        THEN [raised |-> FALSE, drawn |-> 3,
              point |-> Point(RAdd(p.x, Uniform(RSub(R(0), noise_level), noise_level, u(1))),
                              RAdd(p.y, Uniform(RSub(R(0), noise_level), noise_level, u(2))))]
        ELSE IF RLt(noise_level, R(0))
             THEN [raised |-> TRUE, point |-> p, drawn |-> 1]
             ELSE LET half == RDiv(noise_level, R(2))
                  IN  [raised |-> FALSE, drawn |-> 5,
                       point |-> Point(
                           RAdd(p.x, RMul(RMul(half, StdExponential(u(1))), Sign(u(2)))),
                           RAdd(p.y, RMul(RMul(half, StdExponential(u(3))), Sign(u(4)))))]

\* the loop over the first n points
RECURSIVE NoiseAddition(_, _, _, _, _)
NoiseAddition(pts, n, noise_level, tape, pos) ==
    IF n = 0 THEN [raised |-> FALSE, points |-> <<>>, drawn |-> 0]
    ELSE LET before == NoiseAddition(pts, n - 1, noise_level, tape, pos)
         IN  IF before.raised THEN before
             ELSE LET one == NoisyPoint(pts[n], noise_level, tape, pos + before.drawn)
                  IN  [raised |-> one.raised,
                       points |-> Append(before.points, one.point),
                       drawn |-> before.drawn + one.drawn]

-----------------------------------------------------------------------------
(* apply_spatial_transformation *)

Returned(gdf, drawn) == [status |-> "ok", gdf |-> gdf, drawn |-> drawn]
Raised(drawn) == [status |-> "raise", gdf |-> NoneGdf, drawn |-> drawn]

\* the return at the end: a new frame of new_points, or the input when
\* new_points is empty
NewFrame(new_points, gdf, drawn) ==
    Returned(IF new_points # <<>> THEN PointsGdf(new_points) ELSE gdf, drawn)

\* status "ok": gdf is returned; status "raise": an exception leaves the
\* function. drawn: the number of draws taken from the stream.
apply_spatial_transformation(gdf, transformation_type, kw, tape, pos) ==
    IF gdf.isNone \/ Len(gdf.geometry) = 0 THEN Returned(gdf, 0)
    ELSE IF transformation_type = "Clustering"
    THEN LET k == kw.num_clusters
         IN  IF Len(gdf.geometry) >= k
             THEN IF k <= 0
                  THEN Raised(1)     \* np.allclose of 1 centroid and 0 new ones
                  ELSE NewFrame(Clustering(gdf.geometry, k, tape, pos, MaxIterations), gdf, k)
             ELSE NewFrame(<<>>, gdf, 0)
    ELSE IF transformation_type = "Grid Alignment"
    THEN IF kw.grid_size = R(0) THEN Raised(0)     \* float division by zero
         ELSE NewFrame(GridAlignment(gdf.geometry, kw.grid_size), gdf, 0)
    ELSE IF transformation_type = "Noise Addition"
    THEN LET noisy == NoiseAddition(gdf.geometry, Len(gdf.geometry), kw.noise_level, tape, pos)
         IN  IF noisy.raised THEN Raised(noisy.drawn)
             ELSE NewFrame(noisy.points, gdf, noisy.drawn)
    ELSE NewFrame(gdf.geometry, gdf, 0)

-----------------------------------------------------------------------------
(* calculate_optimal_grid_dimensions *)

DefaultMaxSteps == 32
\* a wrong default cap, as a slip in the signature would give
WideMaxTracks == 8 + 4
DefaultMaxTracks == 8

DefaultGrid == <<16, 4>>

\* a slip: the band edges belong to the next band
BaseGridStrict(num_points) ==
    IF num_points < 16 THEN <<8, 4>>
    ELSE IF num_points < 32 THEN <<12, 4>>
    ELSE IF num_points < 64 THEN <<16, 6>>
    ELSE IF num_points < 128 THEN <<20, 6>>
    ELSE <<24, 8>>

BaseGrid(num_points) ==
    IF num_points <= 16 THEN <<8, 4>>
    ELSE IF num_points <= 32 THEN <<12, 4>>
    ELSE IF num_points <= 64 THEN <<16, 6>>
    ELSE IF num_points <= 128 THEN <<20, 6>>
    ELSE <<24, 8>>

AspectRatio(city) ==
    IF city.maxy - city.miny > 0
    THEN Rat(city.maxx - city.minx, city.maxy - city.miny)
    ELSE R(1)

PointDensity(num_points, city) ==
    IF city.area > 0 THEN Rat(num_points, city.area) ELSE R(0)

\* int(base * m) for the multiplier m = n/10
Scaled(base, n) == RTrunc(Rat(base * n, 10))

AspectAdjust(base, r, max_steps, max_tracks) ==
    IF RLt(<<5, 2>>, r)
    THEN <<Min2(Scaled(base[1], 15), max_steps), Max2(Scaled(base[2], 7), 2)>>
    ELSE IF RLt(r, <<2, 5>>)
    THEN <<Max2(Scaled(base[1], 7), 8), Min2(Scaled(base[2], 15), max_tracks)>>
    ELSE IF RLt(<<3, 2>>, r)
    THEN <<Min2(Scaled(base[1], 12), max_steps), Max2(Scaled(base[2], 9), 2)>>
    ELSE IF RLt(r, <<7, 10>>)
    THEN <<Max2(Scaled(base[1], 9), 8), Min2(Scaled(base[2], 12), max_tracks)>>
    ELSE base

DensityAdjust(g, d, max_steps, max_tracks) ==
    IF RLt(<<1, 1000>>, d)
    THEN <<Min2(g[1] + 4, max_steps), Min2(g[2] + 2, max_tracks)>>
    ELSE IF RLt(d, <<1, 10000>>)
    THEN <<Max2(g[1] - 2, 8), Max2(g[2] - 1, 2)>>
    ELSE g

\* a slip: only the steps are made even
EvenRoundSteps(g) == <<g[1] + (g[1] % 2), g[2]>>

EvenRound(g) ==
    <<g[1] + (g[1] % 2), IF g[2] > 2 THEN g[2] + (g[2] % 2) ELSE g[2]>>

FinalClip(g, max_steps, max_tracks) ==
    <<Min2(Max2(g[1], 8), max_steps), Min2(Max2(g[2], 2), max_tracks)>>

calculate_optimal_grid_dimensions(pts, city, max_steps, max_tracks) ==
    IF pts.isNone \/ city.isNone \/ Len(pts.geometry) = 0 THEN DefaultGrid
    ELSE
        LET n == Len(pts.geometry)
            adjusted == AspectAdjust(BaseGrid(n), AspectRatio(city), max_steps, max_tracks)
            dense == DensityAdjust(adjusted, PointDensity(n, city), max_steps, max_tracks)
        IN  FinalClip(EvenRound(dense), max_steps, max_tracks)

-----------------------------------------------------------------------------
(* Values of the variables a specification does not use *)

Pending == Outcome("pending")
NoGridConfig == [status |-> "pending", num_steps |-> 0, num_tracks |-> 0]
NoKwargs == [num_clusters |-> 0, grid_size |-> R(0), noise_level |-> R(0)]

GeojsonIdle == input_gdf = <<>> /\ geojson = <<>>
UnionIdle == layer_data = <<>> /\ union_result = <<>> /\ union_data = <<>>
SessionIdle ==
    /\ stored_layers = <<>> /\ heap = <<>> /\ current_layer = 0
    /\ session_pattern = <<>> /\ sequencer_data = <<>> /\ layer_maps = <<>>

MapperIdle ==
    /\ GeojsonIdle /\ UnionIdle /\ SessionIdle
    /\ grid_config = NoGridConfig
    /\ fetched_gdf = NoneGdf
    /\ transformation = "None"
    /\ kwargs = NoKwargs
    /\ entropy = <<>>
    /\ rng = 0
    /\ runs = <<>>

-----------------------------------------------------------------------------
(* The mapper on its own: every input of the bounded domain, then the call *)

\* boundaries: the 10 x 10 box, an off-origin 20 x 5 box, and the two
\* degenerate boxes of zero width and of zero height
MapperCities ==
    {NoneCity, City(0, 0, 10, 10, 100), City(-4, 2, 16, 7, 60),
     City(3, 0, 3, 10, 0), City(0, 5, 10, 5, 0)}

\* points inside the boxes, left of and below them, on the max edge and above
MapperPoints ==
    {IPoint(1, 1), IPoint(1, 9), IPoint(9, 1), IPoint(9, 9),
     IPoint(-7, -3), IPoint(10, 13)}

MapperGrids == {<<8, 8>>, <<16, 4>>}

SeqsUpTo(S, n) == UNION {[1..k -> S] : k \in 0..n}

\* a pattern of 25 points that noise has moved west of a wide, thinly
\* populated boundary, 200 apart, with the grid the advisor gives for it
WestRow == PointsGdf([i \in 1..25 |-> IPoint(-200 * i, 100)])
WideCity == City(0, 0, 2000, 1000, 2000000)

InitMapper ==
    /\ \/ /\ city_gdf \in MapperCities
          /\ points_gdf \in {NoneGdf} \cup
                            {PointsGdf(s) : s \in SeqsUpTo(MapperPoints, MaxPoints)}
          /\ \E g \in MapperGrids : num_steps = g[1] /\ num_tracks = g[2]
       \/ /\ city_gdf = WideCity
          /\ points_gdf = WestRow
          /\ \E g \in {calculate_optimal_grid_dimensions(WestRow, WideCity,
                                                         DefaultMaxSteps, DefaultMaxTracks)} :
                num_steps = g[1] /\ num_tracks = g[2]
    /\ active_cells_data = Pending
    /\ MapperIdle

ProcessPoints ==
    /\ active_cells_data.status = "pending"
    /\ active_cells_data' =
            process_points_to_sequencer(city_gdf, points_gdf, num_steps, num_tracks)
    /\ UNCHANGED <<city_gdf, points_gdf, num_steps, num_tracks, grid_config,
                   fetched_gdf, transformation, kwargs, entropy, rng, runs>>
    /\ UNCHANGED <<geojsonVars, unionVars, sessionVars>>

NextMapper == ProcessPoints

SpecMapper == InitMapper /\ [][NextMapper]_vars

-----------------------------------------------------------------------------
(* The advisor on its own *)

\* point counts on both sides of every band edge of BaseGrid
AdvisorCounts == {0, 1, 16, 17, 32, 33, 64, 65, 128, 129}

\* width and height of boxes in and on the edges of every aspect-ratio
\* band, and the two degenerate boxes
AdvisorShapes ==
    {<<10, 10>>, <<30, 10>>, <<25, 10>>, <<20, 10>>, <<15, 10>>, <<7, 10>>,
     <<5, 10>>, <<4, 10>>, <<3, 10>>, <<10, 0>>, <<0, 10>>}

\* magnifications that move the density across its two thresholds
AdvisorScales == {1, 20, 200}

\* the polygon fills its bounding box, half of it, or has no area
AdvisorFills == {0, 1, 2}

AdvisorCities ==
    {NoneCity} \cup
    {City(0, 0, sh[1] * k, sh[2] * k, (sh[1] * k * sh[2] * k * f) \div 2) :
        sh \in AdvisorShapes, k \in AdvisorScales, f \in AdvisorFills}

InitAdvisor ==
    /\ city_gdf \in AdvisorCities
    /\ points_gdf \in {NoneGdf} \cup
                      {PointsGdf([i \in 1..n |-> IPoint(0, 0)]) : n \in AdvisorCounts}
    /\ num_steps = 0 /\ num_tracks = 0
    /\ active_cells_data = Pending
    /\ grid_config = NoGridConfig
    /\ fetched_gdf = NoneGdf
    /\ transformation = "None"
    /\ kwargs = NoKwargs
    /\ entropy = <<>>
    /\ rng = 0
    /\ runs = <<>>
    /\ GeojsonIdle /\ UnionIdle /\ SessionIdle

\* optimal_steps, optimal_tracks = calculate_optimal_grid_dimensions(points_gdf, city_gdf)
CalculateGrid ==
    /\ grid_config.status = "pending"
    /\ LET g == calculate_optimal_grid_dimensions(points_gdf, city_gdf,
                                                  DefaultMaxSteps, DefaultMaxTracks)
       IN  grid_config' = [status |-> "ok", num_steps |-> g[1], num_tracks |-> g[2]]
    /\ UNCHANGED <<city_gdf, points_gdf, num_steps, num_tracks, active_cells_data,
                   fetched_gdf, transformation, kwargs, entropy, rng, runs>>
    /\ UNCHANGED <<geojsonVars, unionVars, sessionVars>>

NextAdvisor == CalculateGrid

SpecAdvisor == InitAdvisor /\ [][NextAdvisor]_vars

-----------------------------------------------------------------------------
(* The transformation engine: the provider's points are transformed, and    *)
(* transformed again or fetched again, with one random stream throughout    *)

\* collinear points, so that every distance between points and centroids is
\* rational
XformPoints == {IPoint(0, 0), IPoint(3, 4), IPoint(12, 16)}

\* the four kinds of the selector and one that is none of them, with their
\* parameters
XformConfigs ==
    {<<"None", NoKwargs>>, <<"Rotation", NoKwargs>>}
    \cup {<<"Clustering", [NoKwargs EXCEPT !.num_clusters = k]>> : k \in 0..3}
    \cup {<<"Grid Alignment", [NoKwargs EXCEPT !.grid_size = R(g)]>> : g \in {0, 6, 10}}
    \cup {<<"Noise Addition", [NoKwargs EXCEPT !.noise_level = R(l)]>> : l \in {-1, 0, 1}}

UniformDraws == {R(0), <<3, 4>>}

InitTransform ==
    /\ fetched_gdf \in {NoneGdf} \cup
                       {PointsGdf(pts) : pts \in SeqsUpTo(XformPoints, MaxXformPoints)}
    /\ points_gdf = fetched_gdf
    /\ \E c \in XformConfigs : transformation = c[1] /\ kwargs = c[2]
    /\ entropy \in [1..EntropyPeriod -> UniformDraws]
    /\ rng = 0
    /\ runs = <<>>
    /\ city_gdf = NoneCity
    /\ num_steps = 0 /\ num_tracks = 0
    /\ active_cells_data = Pending
    /\ grid_config = NoGridConfig
    /\ GeojsonIdle /\ UnionIdle /\ SessionIdle

\* points_gdf = apply_spatial_transformation(points_gdf, transformation,
\* **transform_params); an exception leaves points_gdf as it was
ApplyTransformation ==
    /\ Len(runs) < MaxCalls
    /\ \E res \in {apply_spatial_transformation(points_gdf, transformation, kwargs, entropy, rng)} :
           /\ points_gdf' = IF res.status = "ok" THEN res.gdf ELSE points_gdf
           /\ rng' = (rng + res.drawn) % Len(entropy)
           /\ runs' = Append(runs, [input |-> points_gdf,
                                    start |-> rng,
                                    draws |-> DrawsFrom(entropy, rng, res.drawn),
                                    status |-> res.status,
                                    output |-> res.gdf])
    /\ UNCHANGED <<city_gdf, num_steps, num_tracks, active_cells_data, grid_config,
                   fetched_gdf, transformation, kwargs, entropy>>
    /\ UNCHANGED <<geojsonVars, unionVars, sessionVars>>

\* the provider's (cached) points are taken again for a new pattern
FetchPoints ==
    /\ runs # <<>>
    /\ points_gdf # fetched_gdf
    /\ points_gdf' = fetched_gdf
    /\ UNCHANGED <<city_gdf, num_steps, num_tracks, active_cells_data, grid_config,
                   fetched_gdf, transformation, kwargs, entropy, rng, runs>>
    /\ UNCHANGED <<geojsonVars, unionVars, sessionVars>>

NextTransform == ApplyTransformation \/ FetchPoints

SpecTransform == InitTransform /\ [][NextTransform]_vars

-----------------------------------------------------------------------------
(* Claims about the mapper, checked under SpecMapper *)

Mapped == active_cells_data.status = "ok"
Cells == active_cells_data.active_cells
Pts == points_gdf.geometry
PositiveBox == city_gdf.maxx > city_gdf.minx /\ city_gdf.maxy > city_gdf.miny

RECURSIVE SumCounts(_)
SumCounts(cells) ==
    IF cells = <<>> THEN 0 ELSE Head(cells).point_count + SumCounts(Tail(cells))

\* the points of the input whose computed cell is (track, step), in input order
PointsOfCell(track, step) ==
    SelectSeq(Pts, LAMBDA p : CellKey(p, city_gdf, num_steps, num_tracks) = <<track, step>>)

\* C1: with a boundary of positive width and height and a non-empty point
\* set, every returned active cell has 0 <= track < tracks and
\* 0 <= step < steps, wherever the points lie.
C1_CellsInRange ==
    (Mapped /\ PositiveBox /\ Pts # <<>>) =>
        \A i \in 1..Len(Cells) :
            /\ 0 <= Cells[i].track /\ Cells[i].track < num_tracks
            /\ 0 <= Cells[i].step /\ Cells[i].step < num_steps

\* C2: the point counts of the returned active cells add up to the number of
\* input points, which is also grid_bounds.total_points.
C2_PointsConserved ==
    Mapped =>
        /\ SumCounts(Cells) = Len(Pts)
        /\ active_cells_data.grid_bounds.total_points = Len(Pts)

\* C2 witness: a mapping in which several points share a cell and another
\* cell is occupied as well
C2_Witness ==
    /\ Mapped
    /\ Len(Cells) >= 2
    /\ \E i \in 1..Len(Cells) : Cells[i].point_count >= 2

\* C3: no two active cells share (track, step); each cell's point_count is the
\* number (>= 1) of input points whose computed cell is that pair, and its
\* representative coordinate is the arithmetic mean of exactly those points.
C3_UniqueAggregatedCells ==
    Mapped =>
        /\ \A i, j \in 1..Len(Cells) :
              (Cells[i].track = Cells[j].track /\ Cells[i].step = Cells[j].step) => i = j
        /\ \A i \in 1..Len(Cells) :
              LET own == PointsOfCell(Cells[i].track, Cells[i].step)
                  n == Len(own)
              IN  /\ Cells[i].point_count >= 1
                  /\ Cells[i].point_count = n
                  /\ RMul(Cells[i].point_lng, R(n)) = RSum([k \in 1..n |-> own[k].x])
                  /\ RMul(Cells[i].point_lat, R(n)) = RSum([k \in 1..n |-> own[k].y])

\* C3 witness: a cell holding two different points, whose representative is
\* neither of them
C3_Witness ==
    /\ Mapped
    /\ \E i \in 1..Len(Cells) :
          /\ Cells[i].point_count >= 2
          /\ \A k \in 1..Len(Pts) : Pts[k].x # Cells[i].point_lng

Clamp(v, lo, hi) == Max2(lo, Min2(v, hi))

\* the cell the claim's formula gives a point: floor, clamped on both sides
FloorClampCell(p) ==
    <<Clamp(num_tracks - 1
              - RFloor(RDiv(RSub(p.y, R(city_gdf.miny)), LatStep(city_gdf, num_tracks))),
            0, num_tracks - 1),
      Clamp(RFloor(RDiv(RSub(p.x, R(city_gdf.minx)), LngStep(city_gdf, num_steps))),
            0, num_steps - 1)>>

ScenarioC4 ==
    /\ city_gdf = City(0, 0, 10, 10, 100)
    /\ num_steps = 8 /\ num_tracks = 8
    /\ Pts = <<IPoint(1, 1), IPoint(1, 9), IPoint(9, 1), IPoint(9, 9)>>

\* C4: lngStep and latStep come from the boundary's bounding box, and every
\* point is mapped to step = clamp(floor((x - minX)/lngStep), 0, steps-1),
\* track = clamp(tracks - 1 - floor((y - minY)/latStep), 0, tracks-1); in the
\* scenario (0,0)-(10,10), 8 x 8, the points (1,1),(1,9),(9,1),(9,9) give the
\* cells (7,0),(0,0),(7,7),(0,7) as (track, step).
C4_FloorClampMapping ==
    Mapped =>
        /\ active_cells_data.grid_bounds.lng_step
              = Rat(city_gdf.maxx - city_gdf.minx, num_steps)
        /\ active_cells_data.grid_bounds.lat_step
              = Rat(city_gdf.maxy - city_gdf.miny, num_tracks)
        /\ {<<Cells[i].track, Cells[i].step>> : i \in 1..Len(Cells)}
              = {FloorClampCell(Pts[k]) : k \in 1..Len(Pts)}
        /\ ScenarioC4 =>
              [i \in 1..Len(Cells) |-> <<Cells[i].track, Cells[i].step>>]
                  = <<<<7, 0>>, <<0, 0>>, <<7, 7>>, <<0, 7>>>>

\* the part of C4 the code does satisfy: the scenario, and the formula for
\* every point that lies less than one cell width left of the box
C4_HoldsRightOfLeftEdge ==
    (Mapped /\ \A k \in 1..Len(Pts) :
                  RLt(R(-1), RDiv(RSub(Pts[k].x, R(city_gdf.minx)),
                                  LngStep(city_gdf, num_steps))))
        => C4_FloorClampMapping

-----------------------------------------------------------------------------
(* Claims about the advisor, checked under SpecAdvisor *)

Advised == grid_config.status = "ok"
DegenerateAdvice == points_gdf.isNone \/ city_gdf.isNone \/ Len(points_gdf.geometry) = 0

\* C5: the advisor returns steps in [8,32] and tracks in [2,8] for every
\* non-empty point set and every boundary, and exactly (16,4) when the point
\* set is null or empty or the boundary is null.
C5_GridInEnvelope ==
    Advised =>
        IF DegenerateAdvice
        THEN grid_config.num_steps = 16 /\ grid_config.num_tracks = 4
        ELSE /\ 8 <= grid_config.num_steps /\ grid_config.num_steps <= 32
             /\ 2 <= grid_config.num_tracks /\ grid_config.num_tracks <= 8

\* C5 witness: a very tall boundary with many points, where the track cap
\* binds (1.5 * 8 = 12 tracks before the cap)
C5_Witness ==
    /\ Advised
    /\ ~DegenerateAdvice
    /\ Len(points_gdf.geometry) > 128
    /\ RLt(AspectRatio(city_gdf), <<2, 5>>)
    /\ grid_config.num_tracks = 8

\* C5 witness of the default: an empty, non-null point set
C5_DefaultReached ==
    /\ Advised
    /\ ~points_gdf.isNone /\ Len(points_gdf.geometry) = 0 /\ ~city_gdf.isNone
    /\ grid_config.num_steps = 16

-----------------------------------------------------------------------------
(* Claims about the transformation engine, checked under SpecTransform *)

RunIds == 1..Len(runs)
NonEmptyInput(r) == ~r.input.isNone /\ Len(r.input.geometry) > 0
KnownKinds == {"None", "Clustering", "Grid Alignment", "Noise Addition"}

\* a Clustering call with 2 <= num_clusters <= number of input points
ClusteringRun(r) ==
    /\ transformation = "Clustering"
    /\ kwargs.num_clusters >= 2
    /\ ~r.input.isNone
    /\ Len(r.input.geometry) >= kwargs.num_clusters

\* the Lloyd course of the call just made (every call is the last one in the
\* state it leads to)
LastTrace ==
    ClusteringTrace(runs[Len(runs)].input.geometry, kwargs.num_clusters,
                    entropy, runs[Len(runs)].start, MaxIterations)

SingletonCells(pts, grid_size) ==
    \A a, b \in 1..Len(pts) : a # b => GridKey(pts[a], grid_size) # GridKey(pts[b], grid_size)

\* call i is a Grid Alignment of a point set with singleton cells only, and
\* call i + 1 aligns its result again with the same cell size
AlignedTwice(i) ==
    /\ transformation = "Grid Alignment"
    /\ i + 1 \in RunIds
    /\ runs[i].status = "ok" /\ runs[i + 1].status = "ok"
    /\ NonEmptyInput(runs[i])
    /\ SingletonCells(runs[i].input.geometry, kwargs.grid_size)
    /\ runs[i + 1].input = runs[i].output

\* C8: for a point set whose every occupied cell holds exactly one point,
\* Grid Alignment applied a second time with the same cell size returns the
\* coordinates of the first application.
C8_GridAlignmentIdempotent ==
    \A i \in RunIds : AlignedTwice(i) => runs[i + 1].output = runs[i].output

\* C8 witness: two points in different cells, which the first application
\* moved to their grid nodes
C8_Witness ==
    \E i \in RunIds :
        /\ AlignedTwice(i)
        /\ Len(runs[i].input.geometry) >= 2
        /\ \A k \in 1..Len(runs[i].input.geometry) :
              runs[i].output.geometry[k] # runs[i].input.geometry[k]

\* C9: Noise Addition with noiseLevel = 0 on a non-empty point set is
\* rejected; it does not return the points unperturbed.
C9_ZeroNoiseRejected ==
    \A i \in RunIds :
        (/\ transformation = "Noise Addition"
         /\ kwargs.noise_level = R(0)
         /\ NonEmptyInput(runs[i]))
            => /\ runs[i].status # "ok"
               /\ runs[i].output.geometry # runs[i].input.geometry

\* C10: every transformation kind other than None, Clustering, Grid
\* Alignment and Noise Addition is rejected; it never yields a transformed or
\* pass-through point set.
C10_UnknownKindRejected ==
    \A i \in RunIds :
        (transformation \notin KnownKinds /\ NonEmptyInput(runs[i]))
            => runs[i].status # "ok"

\* what the code does with an unknown kind and with zero noise: it returns
\* the coordinates it was given
PassThrough ==
    \A i \in RunIds :
        (\/ transformation \notin KnownKinds
         \/ transformation = "Noise Addition" /\ kwargs.noise_level = R(0))
            => /\ runs[i].status = "ok"
               /\ runs[i].output.geometry = runs[i].input.geometry

\* a call whose parameter is malformed: cell size <= 0, noise level <= 0, or
\* a cluster count below 2 or above the number of input points
Malformed(r) ==
    /\ NonEmptyInput(r)
    /\ \/ transformation = "Grid Alignment" /\ RLe(kwargs.grid_size, R(0))
       \/ transformation = "Noise Addition" /\ RLe(kwargs.noise_level, R(0))
       \/ /\ transformation = "Clustering"
          /\ (kwargs.num_clusters < 2 \/ kwargs.num_clusters > Len(r.input.geometry))

\* C11: every call with a malformed parameter reports a configuration error
\* as a value: it neither raises nor returns points, and it consumes no
\* random draw before rejecting.
C11_MalformedRejectedAsValue ==
    \A i \in RunIds :
        Malformed(runs[i]) =>
            /\ runs[i].status \notin {"ok", "raise"}
            /\ runs[i].draws = <<>>

\* what the code does with malformed parameters: there is no outcome but a
\* return of points or an exception
NoRejection ==
    \A i \in RunIds : runs[i].status \in {"ok", "raise"}

\* a malformed call that raised after taking a draw (num_clusters = 0)
RaisedAfterDraw ==
    \E i \in RunIds :
        Malformed(runs[i]) /\ runs[i].status = "raise" /\ runs[i].draws # <<>>

-----------------------------------------------------------------------------
(* GeoDataFrames with their rows: index labels, geometries, attribute       *)
(* columns and a coordinate reference                                       *)

PointGeom(x, y) == [kind |-> "Point", coords |-> <<x, y>>]
\* a polygon without holes, given by the corners of its exterior ring
Box(x0, y0, x1, y1) == [kind |-> "Polygon", coords |-> <<x0, y0, x1, y1>>]
TwoBoxes(a, b) == [kind |-> "MultiPolygon", coords |-> a.coords \o b.coords]
Line(x0, y0, x1, y1) == [kind |-> "LineString", coords |-> <<x0, y0, x1, y1>>]

Row(idx, geometry, values) == [idx |-> idx, geometry |-> geometry, values |-> values]

NoneFrame == [isNone |-> TRUE, crs |-> "", columns |-> <<>>, rows |-> <<>>]
Frame(crs, columns, rows) ==
    [isNone |-> FALSE, crs |-> crs, columns |-> columns, rows |-> rows]

-----------------------------------------------------------------------------
(* convert_gdf_to_geojson *)

\* properties[key] = value on a dict, which keeps its insertion order
SetKey(props, key, value) ==
    IF \E i \in 1..Len(props) : props[i][1] = key
    THEN [i \in 1..Len(props) |-> IF props[i][1] = key THEN <<key, value>> ELSE props[i]]
    ELSE Append(props, <<key, value>>)

\* properties.get(key, default)
GetKey(props, key, default) ==
    IF \E i \in 1..Len(props) : props[i][1] = key
    THEN props[CHOOSE i \in 1..Len(props) : props[i][1] = key][2]
    ELSE default

\* the loop over gdf.columns: the first n attribute columns are copied
RECURSIVE WithColumns(_, _, _, _)
WithColumns(props, columns, values, n) ==
    IF n = 0 THEN props
    ELSE SetKey(WithColumns(props, columns, values, n - 1), columns[n], values[n])

Properties(row, columns) ==
    WithColumns(<<<<"id", row.idx>>, <<"index", row.idx>>>>, columns, row.values, Len(columns))

\* list(exterior.coords) of the polygon whose corners start at coords[o]
Ring(coords, o) ==
    <<<<coords[o], coords[o + 1]>>, <<coords[o + 2], coords[o + 1]>>,
      <<coords[o + 2], coords[o + 3]>>, <<coords[o], coords[o + 3]>>,
      <<coords[o], coords[o + 1]>>>>

GeomData(geometry) ==
    IF geometry.kind = "Point"
    THEN [type |-> "Point", coordinates |-> geometry.coords]
    ELSE IF geometry.kind = "Polygon"
    THEN [type |-> "Polygon", coordinates |-> <<Ring(geometry.coords, 1)>>]
    ELSE [type |-> "MultiPolygon",
          coordinates |-> [k \in 1..(Len(geometry.coords) \div 4) |->
                              <<Ring(geometry.coords, 4 * k - 3)>>]]

\* a slip: every supported geometry tagged as a point
TypeTagPoint(geometry) == "point"

\* "point" for a geometry with x and y, "boundary" for a (multi)polygon
TypeTag(geometry) == IF geometry.kind = "Point" THEN "point" ELSE "boundary"

Supported(geometry) == geometry.kind \in {"Point", "Polygon", "MultiPolygon"}

Feature(row, columns) ==
    [type |-> "Feature",
     geometry |-> GeomData(row.geometry),
     properties |-> SetKey(Properties(row, columns), "type", TypeTag(row.geometry))]

\* the features of the first n rows; an unsupported geometry is skipped
RECURSIVE Features(_, _, _)
Features(rows, columns, n) ==
    IF n = 0 THEN <<>>
    ELSE IF Supported(rows[n].geometry)
         THEN Append(Features(rows, columns, n - 1), Feature(rows[n], columns))
         ELSE Features(rows, columns, n - 1)

NoneGeojson ==
    [isNone |-> TRUE, features |-> <<>>, total_features |-> 0, feature_types |-> {}]

convert_gdf_to_geojson(frame) ==
    IF frame.isNone THEN NoneGeojson
    ELSE LET features == Features(frame.rows, frame.columns, Len(frame.rows))
         IN  [isNone |-> FALSE,
              features |-> features,
              total_features |-> Len(features),
              feature_types |-> {GetKey(features[i].properties, "type", "unknown") :
                                    i \in 1..Len(features)}]

-----------------------------------------------------------------------------
(* Patterns and layers *)

\* points_gdf for process_points_to_sequencer and
\* calculate_optimal_grid_dimensions: the rows' points
AsPoints(frame) ==
    IF frame.isNone THEN NoneGdf
    ELSE PointsGdf([i \in 1..Len(frame.rows) |->
                       IPoint(frame.rows[i].geometry.coords[1],
                              frame.rows[i].geometry.coords[2])])

\* the boxes of all rows of a boundary frame, as <<x0, y0, x1, y1>>
Boxes(frame) ==
    UNION {{SubSeq(frame.rows[i].geometry.coords, 4 * k - 3, 4 * k) :
                k \in 1..(Len(frame.rows[i].geometry.coords) \div 4)} :
           i \in 1..Len(frame.rows)}

SetMin(S) == CHOOSE m \in S : \A n \in S : m <= n
SetMax(S) == CHOOSE m \in S : \A n \in S : m >= n

\* city_gdf.unary_union: its bounds and its area (overlaps count once)
AsCity(frame) ==
    IF frame.isNone THEN NoneCity
    ELSE LET boxes == Boxes(frame)
             minx == SetMin({b[1] : b \in boxes})
             miny == SetMin({b[2] : b \in boxes})
             maxx == SetMax({b[3] : b \in boxes})
             maxy == SetMax({b[4] : b \in boxes})
             covered == {c \in (minx..(maxx - 1)) \X (miny..(maxy - 1)) :
                            \E b \in boxes : /\ b[1] <= c[1] /\ c[1] < b[3]
                                             /\ b[2] <= c[2] /\ c[2] < b[4]}
         IN  City(minx, miny, maxx, maxy, Cardinality(covered))

GridConfig(g) == [num_steps |-> g[1], num_tracks |-> g[2]]

\* auto_generate_pattern, step 5, and the pattern_data stored from it
Pattern(city, points, location_name, data_info) ==
    LET g == calculate_optimal_grid_dimensions(AsPoints(points), AsCity(city),
                                               DefaultMaxSteps, DefaultMaxTracks)
    IN  [city_gdf |-> city,
         points_gdf |-> points,
         location_name |-> location_name,
         data_info |-> data_info,
         grid_config |-> GridConfig(g),
         active_cells_data |->
             process_points_to_sequencer(AsCity(city), AsPoints(points), g[1], g[2]),
         geojson_data |-> convert_gdf_to_geojson(points),
         city_bounds_data |-> convert_gdf_to_geojson(city)]

Layer(id, name, patterns) == [id |-> id, name |-> name, patterns |-> patterns]

-----------------------------------------------------------------------------
(* create_layer_union, create_layer_union_for_sequencer *)

\* the origin of a coordinate reference: a shift stands for the projection
CrsOrigin(crs) == IF crs = "EPSG:4326" THEN 0 ELSE 100

\* gdf.to_crs(crs): every coordinate re-expressed in the other reference
ToCrs(frame, crs) ==
    LET shift == CrsOrigin(crs) - CrsOrigin(frame.crs)
    IN  [frame EXCEPT
            !.crs = crs,
            !.rows = [i \in 1..Len(frame.rows) |->
                        [frame.rows[i] EXCEPT
                            !.geometry.coords = [j \in 1..Len(@) |-> @[j] + shift]]]]

\* if gdf.crs != base_crs: gdf = gdf.to_crs(base_crs)
Align(frame, base_crs) == IF frame.crs # base_crs THEN ToCrs(frame, base_crs) ELSE frame

\* a slip: the later frames put in front
RECURSIVE ConcatRowsReversed(_, _)
ConcatRowsReversed(frames, n) ==
    IF n = 0 THEN <<>> ELSE frames[n].rows \o ConcatRowsReversed(frames, n - 1)

RECURSIVE ConcatRows(_, _)
ConcatRows(frames, n) ==
    IF n = 0 THEN <<>> ELSE ConcatRows(frames, n - 1) \o frames[n].rows

\* gpd.GeoDataFrame(pd.concat(frames, ignore_index=True), crs=crs); the
\* frames of one kind have the same columns
Concat(frames, crs) ==
    LET rows == ConcatRows(frames, Len(frames))
    IN  Frame(crs, frames[1].columns,
              [i \in 1..Len(rows) |-> [rows[i] EXCEPT !.idx = i - 1]])

\* gdf is not None and not gdf.empty
Present(frame) == ~frame.isNone /\ Len(frame.rows) > 0

AllPoints(patterns) ==
    SelectSeq([i \in 1..Len(patterns) |-> patterns[i].points_gdf], Present)
AllCityGdfs(patterns) ==
    SelectSeq([i \in 1..Len(patterns) |-> patterns[i].city_gdf], Present)
\* a slip: a label only for a pattern whose points enter the union
AllLocationsWithPoints(patterns) ==
    SelectSeq([i \in 1..Len(patterns) |->
                  IF Present(patterns[i].points_gdf) THEN patterns[i].location_name ELSE ""],
              LAMBDA n : n # "")

AllLocations(patterns) ==
    SelectSeq([i \in 1..Len(patterns) |-> patterns[i].location_name], LAMBDA n : n # "")
AllDataInfo(patterns) ==
    SelectSeq([i \in 1..Len(patterns) |-> patterns[i].data_info], LAMBDA n : n # "")

\* a slip: only the first frame is kept
UnionFrameFirst(all) == all[1]

\* the union of a non-empty list of frames, in the reference of the first
UnionFrame(all) ==
    IF Len(all) = 1 THEN all[1]
    ELSE Concat([i \in 1..Len(all) |-> Align(all[i], all[1].crs)], all[1].crs)

\* " + ".join(names)
RECURSIVE Join(_)
Join(names) ==
    IF Len(names) = 1 THEN names[1]
    ELSE Join(SubSeq(names, 1, Len(names) - 1)) \o " + " \o names[Len(names)]

CombinedLabel(names, default) == IF names # <<>> THEN Join(names) ELSE default

\* the five Nones of create_layer_union
NoUnionResult(status) ==
    [status |-> status,
     union_points_gdf |-> NoneFrame,
     union_city_gdf |-> NoneFrame,
     combined_location |-> "",
     combined_data_info |-> "",
     geojson_data |-> NoneGeojson,
     city_bounds_data |-> NoneGeojson]

\* status "none": None is returned, also when an exception is caught
\* (all_location_gdfs[0] of an empty list)
create_layer_union(layer) ==
    LET patterns == layer.patterns
        all_points == AllPoints(patterns)
        all_location_gdfs == AllCityGdfs(patterns)
    IN  IF patterns = <<>> THEN NoUnionResult("none")
        ELSE IF all_points = <<>> THEN NoUnionResult("none")
        ELSE IF all_location_gdfs = <<>> THEN NoUnionResult("none")
        ELSE LET union_points_gdf == UnionFrame(all_points)
                 union_city_gdf == UnionFrame(all_location_gdfs)
             IN  [status |-> "ok",
                  union_points_gdf |-> union_points_gdf,
                  union_city_gdf |-> union_city_gdf,
                  combined_location |->
                      CombinedLabel(AllLocations(patterns), "Multiple Locations"),
                  combined_data_info |->
                      CombinedLabel(AllDataInfo(patterns), "Multiple Patterns"),
                  geojson_data |-> convert_gdf_to_geojson(union_points_gdf),
                  city_bounds_data |-> convert_gdf_to_geojson(union_city_gdf)]

NoUnionInfo ==
    [present |-> FALSE, pattern_count |-> 0, total_points |-> 0,
     locations |-> <<>>, data_types |-> <<>>]

NoUnionData(status) ==
    [status |-> status,
     geojson_data |-> NoneGeojson,
     city_bounds_data |-> NoneGeojson,
     active_cells_data |-> Outcome("none"),
     grid_config |-> GridConfig(DefaultGrid),
     location_name |-> "",
     data_info |-> "",
     has_geodata |-> FALSE,
     union_info |-> NoUnionInfo]

\* a slip: the single pattern of a layer played on the default grid
SinglePatternDefaultGrid(pattern) ==
    [status |-> "ok",
     geojson_data |-> pattern.geojson_data,
     city_bounds_data |-> pattern.city_bounds_data,
     active_cells_data |-> pattern.active_cells_data,
     grid_config |-> GridConfig(DefaultGrid),
     location_name |-> pattern.location_name,
     data_info |-> pattern.data_info,
     has_geodata |-> ~pattern.city_gdf.isNone /\ ~pattern.points_gdf.isNone,
     union_info |-> NoUnionInfo]

\* if len(patterns) == 1: the pattern is used directly
SinglePattern(pattern) ==
    [status |-> "ok",
     geojson_data |-> pattern.geojson_data,
     city_bounds_data |-> pattern.city_bounds_data,
     active_cells_data |-> pattern.active_cells_data,
     grid_config |-> pattern.grid_config,
     location_name |-> pattern.location_name,
     data_info |-> pattern.data_info,
     has_geodata |-> ~pattern.city_gdf.isNone /\ ~pattern.points_gdf.isNone,
     union_info |-> NoUnionInfo]

\* the union of several patterns; an exception is caught and None returned
MultiplePatterns(patterns) ==
    LET all_points == AllPoints(patterns)
        all_city_gdfs == AllCityGdfs(patterns)
    IN  IF all_points = <<>> THEN NoUnionData("none")
        ELSE IF all_city_gdfs = <<>> THEN NoUnionData("none")
        ELSE LET union_points_gdf == UnionFrame(all_points)
                 union_city_gdf == UnionFrame(all_city_gdfs)
                 g == calculate_optimal_grid_dimensions(
                          AsPoints(union_points_gdf), AsCity(union_city_gdf),
                          DefaultMaxSteps, DefaultMaxTracks)
                 cells == process_points_to_sequencer(
                              AsCity(union_city_gdf), AsPoints(union_points_gdf), g[1], g[2])
             IN  IF cells.status = "raise" THEN NoUnionData("none")
                 ELSE [status |-> "ok",
                       geojson_data |-> convert_gdf_to_geojson(union_points_gdf),
                       city_bounds_data |-> convert_gdf_to_geojson(union_city_gdf),
                       active_cells_data |-> cells,
                       grid_config |-> GridConfig(g),
                       location_name |->
                           CombinedLabel(AllLocations(patterns), "Multiple Locations"),
                       data_info |->
                           CombinedLabel(AllDataInfo(patterns), "Multiple Patterns"),
                       has_geodata |-> TRUE,
                       union_info |->
                           [present |-> TRUE,
                            pattern_count |-> Len(patterns),
                            total_points |-> Len(union_points_gdf.rows),
                            locations |-> AllLocations(patterns),
                            data_types |-> AllDataInfo(patterns)]]

\* a slip: the union a layer had when it was created, with its one pattern
UnionAsCreated(layer) ==
    IF layer.patterns = <<>> THEN NoUnionData("none")
    ELSE SinglePattern(layer.patterns[1])

create_layer_union_for_sequencer(layer) ==
    IF layer.patterns = <<>> THEN NoUnionData("none")
    ELSE IF Len(layer.patterns) = 1 THEN SinglePattern(layer.patterns[1])
    ELSE MultiplePatterns(layer.patterns)

-----------------------------------------------------------------------------
(* convert_gdf_to_geojson on its own *)

CoreIdle ==
    /\ city_gdf = NoneCity /\ points_gdf = NoneGdf
    /\ num_steps = 0 /\ num_tracks = 0
    /\ active_cells_data = Pending /\ grid_config = NoGridConfig
    /\ fetched_gdf = NoneGdf /\ transformation = "None" /\ kwargs = NoKwargs
    /\ entropy = <<>> /\ rng = 0 /\ runs = <<>>

\* a row whose geometry is None
NoGeometry == [kind |-> "None", coords |-> <<>>]

GeojsonGeometries ==
    {PointGeom(1, 2), Box(0, 0, 10, 10), TwoBoxes(Box(0, 0, 2, 2), Box(5, 5, 7, 7)),
     Line(0, 0, 3, 3), NoGeometry}

\* attribute columns beside geometry: none (a points frame), or those of a
\* geocoded boundary, one of which is called "type"
GeojsonColumns == {<<>>, <<"name">>, <<"type", "name">>}

\* first index label: a fresh frame, or rows kept from a longer frame
GeojsonFirstLabels == {0, 5}

GeojsonFrames ==
    {NoneFrame} \cup
    {Frame("EPSG:4326", columns,
           [i \in 1..Len(gs) |-> Row(first + i - 1, gs[i], [c \in 1..Len(columns) |-> 7])]) :
        gs \in SeqsUpTo(GeojsonGeometries, MaxRows),
        columns \in GeojsonColumns,
        first \in GeojsonFirstLabels}

InitGeojson ==
    /\ input_gdf \in GeojsonFrames
    /\ geojson = [done |-> FALSE, value |-> NoneGeojson]
    /\ CoreIdle /\ UnionIdle /\ SessionIdle

\* geojson_data = convert_gdf_to_geojson(gdf)
ConvertGdf ==
    /\ ~geojson.done
    /\ geojson' = [done |-> TRUE, value |-> convert_gdf_to_geojson(input_gdf)]
    /\ UNCHANGED <<input_gdf, coreVars, unionVars, sessionVars>>

NextGeojson == ConvertGdf

SpecGeojson == InitGeojson /\ [][NextGeojson]_vars

-----------------------------------------------------------------------------
(* The union functions on their own *)

Points4326(coords) ==
    Frame("EPSG:4326", <<>>,
          [i \in 1..Len(coords) |-> Row(i - 1, PointGeom(coords[i][1], coords[i][2]), <<>>)])
Points3857(coords) ==
    Frame("EPSG:3857", <<>>,
          [i \in 1..Len(coords) |-> Row(i - 1, PointGeom(coords[i][1], coords[i][2]), <<>>)])
Boundary(crs, box, name) == Frame(crs, <<"name">>, <<Row(0, box, <<name>>)>>)

\* three generated patterns: A and B touch and B has an island, C is held in
\* another reference and overlaps A
PatternA ==
    Pattern(Boundary("EPSG:4326", Box(0, 0, 10, 10), 1),
            Points4326(<<<<1, 1>>, <<5, 5>>, <<9, 9>>>>), "A-label", "3 random points")
PatternB ==
    Pattern(Boundary("EPSG:4326", TwoBoxes(Box(10, 0, 20, 10), Box(21, 0, 23, 2)), 2),
            Points4326(<<<<11, 1>>, <<12, 9>>, <<15, 5>>, <<19, 2>>, <<19, 9>>>>),
            "B-label", "5 cafe amenities")
PatternC ==
    Pattern(Boundary("EPSG:3857", Box(105, 105, 115, 110), 3),
            Points3857(<<<<106, 106>>, <<114, 109>>>>), "C-label", "2 random points")

\* patterns as a caller may hand them over: an empty point set, no point
\* set and no labels, no boundary, neither points nor boundary
PatternEmpty ==
    Pattern(Boundary("EPSG:3857", Box(100, 100, 110, 110), 4),
            Points3857(<<>>), "E-label", "0 random points")
PatternNoPoints ==
    Pattern(Boundary("EPSG:4326", Box(0, 0, 10, 10), 5), NoneFrame, "", "")
PatternNoBoundary ==
    Pattern(NoneFrame, Points4326(<<<<2, 3>>>>), "X-label", "1 random points")
PatternNothing ==
    Pattern(NoneFrame, Points4326(<<>>), "N-label", "0 cafe amenities")

GeneratedPatterns == {PatternA, PatternB, PatternC}
UnionPatterns ==
    GeneratedPatterns \cup {PatternEmpty, PatternNoPoints, PatternNoBoundary, PatternNothing}

InitUnion ==
    /\ layer_data \in {Layer(1, <<"Layer ", "1">>, ps) : ps \in SeqsUpTo(UnionPatterns, MaxPatterns)}
    /\ union_result = NoUnionResult("pending")
    /\ union_data = NoUnionData("pending")
    /\ CoreIdle /\ GeojsonIdle /\ SessionIdle

\* ... = create_layer_union(layer_data)
CreateLayerUnion ==
    /\ union_result.status = "pending"
    /\ union_result' = create_layer_union(layer_data)
    /\ UNCHANGED <<layer_data, union_data, coreVars, geojsonVars, sessionVars>>

\* union_data = create_layer_union_for_sequencer(layer)
CreateLayerUnionForSequencer ==
    /\ union_data.status = "pending"
    /\ union_data' = create_layer_union_for_sequencer(layer_data)
    /\ UNCHANGED <<layer_data, union_result, coreVars, geojsonVars, sessionVars>>

NextUnion == CreateLayerUnion \/ CreateLayerUnionForSequencer

SpecUnion == InitUnion /\ [][NextUnion]_vars

-----------------------------------------------------------------------------
(* Claims about the union functions, checked under SpecUnion *)

Patterns == layer_data.patterns
DisplayDone == union_result.status # "pending"
PlaybackDone == union_data.status # "pending"

\* the layer holds exactly one pattern, one that auto_generate_pattern made
SingleGenerated == Len(Patterns) = 1 /\ Patterns[1] \in GeneratedPatterns

DirectGrid(p) ==
    calculate_optimal_grid_dimensions(AsPoints(p.points_gdf), AsCity(p.city_gdf),
                                      DefaultMaxSteps, DefaultMaxTracks)
DirectCells(p) ==
    process_points_to_sequencer(AsCity(p.city_gdf), AsPoints(p.points_gdf),
                                DirectGrid(p)[1], DirectGrid(p)[2])

CoordsIn(frame, crs) ==
    [i \in 1..Len(frame.rows) |->
        [j \in 1..Len(frame.rows[i].geometry.coords) |->
            frame.rows[i].geometry.coords[j] + CrsOrigin(crs) - CrsOrigin(frame.crs)]]

\* the points of the first n patterns, one pattern after the other
RECURSIVE PointsInOrder(_, _, _)
PointsInOrder(patterns, n, crs) ==
    IF n = 0 THEN <<>>
    ELSE PointsInOrder(patterns, n - 1, crs) \o CoordsIn(patterns[n].points_gdf, crs)

RECURSIVE TotalPoints(_, _)
TotalPoints(patterns, n) ==
    IF n = 0 THEN 0 ELSE TotalPoints(patterns, n - 1) + Len(patterns[n].points_gdf.rows)

AllHavePoints ==
    /\ Patterns # <<>>
    /\ \A i \in 1..Len(Patterns) : Present(Patterns[i].points_gdf)
SomeBoundary == \E i \in 1..Len(Patterns) : Present(Patterns[i].city_gdf)

Shapes(frame) ==
    [i \in 1..Len(frame.rows) |->
        [kind |-> frame.rows[i].geometry.kind,
         coords |-> CoordsIn(frame, "EPSG:4326")[i],
         values |-> frame.rows[i].values]]

\* the boundaries of the first n patterns, one pattern after the other
RECURSIVE BoundariesInOrder(_, _)
BoundariesInOrder(patterns, n) ==
    IF n = 0 THEN <<>>
    ELSE BoundariesInOrder(patterns, n - 1) \o Shapes(patterns[n].city_gdf)

SomePoints == \E i \in 1..Len(Patterns) : Present(Patterns[i].points_gdf)

\* the features are those of the shapes, read in some one reference
FeaturesOfShapes(features, shapes) ==
    /\ Len(features) = Len(shapes)
    /\ \E crs \in {"EPSG:4326", "EPSG:3857"} :
          \A i \in 1..Len(shapes) :
              features[i].geometry =
                  GeomData([kind |-> shapes[i].kind,
                            coords |-> [j \in 1..Len(shapes[i].coords) |->
                                           shapes[i].coords[j] + CrsOrigin(crs)]])

\* C14: the union boundary collection holds every pattern's boundary as a
\* feature of its own, with its shape and attributes, in pattern order; it
\* has as many features as the patterns have boundaries, and boundaries
\* that touch or overlap are not merged.
C14_BoundariesKeptSeparate ==
    SomePoints /\ SomeBoundary =>
        \E expected \in {BoundariesInOrder(Patterns, Len(Patterns))} :
            /\ DisplayDone =>
                  /\ union_result.status = "ok"
                  /\ Shapes(union_result.union_city_gdf) = expected
                  /\ FeaturesOfShapes(union_result.city_bounds_data.features, expected)
            /\ PlaybackDone =>
                  /\ union_data.status = "ok"
                  /\ FeaturesOfShapes(union_data.city_bounds_data.features, expected)

\* C14 witness: the touching boundaries of A and B, and the overlapping
\* boundaries of A and C, are two features
C14_Witness ==
    /\ Patterns \in {<<PatternA, PatternB>>, <<PatternA, PatternC>>}
    /\ DisplayDone /\ PlaybackDone
    /\ Len(union_result.union_city_gdf.rows) = 2
    /\ union_data.city_bounds_data.total_features = 2

\* names[1] + " + " + names[2] + ..., built from the front
RECURSIVE PlusJoined(_)
PlusJoined(names) ==
    IF Len(names) = 1 THEN names[1]
    ELSE names[1] \o " + " \o PlusJoined(Tail(names))

Contributes(p) == Present(p.points_gdf) \/ Present(p.city_gdf)

\* the non-empty labels of the first n patterns: of all of them, or of those
\* that contribute
RECURSIVE LabelsInOrder(_, _, _, _)
LabelsInOrder(patterns, n, field, all) ==
    IF n = 0 THEN <<>>
    ELSE IF (all \/ Contributes(patterns[n])) /\ patterns[n][field] # ""
         THEN Append(LabelsInOrder(patterns, n - 1, field, all), patterns[n][field])
         ELSE LabelsInOrder(patterns, n - 1, field, all)

LabelsAre(all) ==
    \E locations \in {LabelsInOrder(Patterns, Len(Patterns), "location_name", all)} :
    \E infos \in {LabelsInOrder(Patterns, Len(Patterns), "data_info", all)} :
        /\ DisplayDone /\ union_result.status = "ok" =>
              /\ locations # <<>> => union_result.combined_location = PlusJoined(locations)
              /\ infos # <<>> => union_result.combined_data_info = PlusJoined(infos)
        /\ PlaybackDone /\ union_data.status = "ok" =>
              /\ locations # <<>> => union_data.location_name = PlusJoined(locations)
              /\ infos # <<>> => union_data.data_info = PlusJoined(infos)

\* C15 as stated: the combined location label and the combined data-source
\* label of a union are the labels, joined with " + " in pattern order, of
\* the patterns that contribute points or a boundary to the union.
C15_LabelsOfContributingPatterns == LabelsAre(FALSE)

\* C15, amended: the combined labels are the non-empty labels of all the
\* layer's patterns, joined with " + " in pattern order, whether or not a
\* pattern's points or boundary enter the union.
C15_LabelsOfAllPatterns == LabelsAre(TRUE)

\* C15 witness: "A-label + B-label" for patterns A then B, and a label of
\* three components
C15_Witness ==
    /\ DisplayDone /\ PlaybackDone
    /\ \/ /\ Patterns = <<PatternA, PatternB>>
          /\ union_result.combined_location = "A-label + B-label"
          /\ union_data.location_name = "A-label + B-label"
          /\ union_data.data_info = "3 random points + 5 cafe amenities"
       \/ /\ Len(Patterns) = 3
          /\ union_data.location_name = "B-label + N-label + A-label"

\* C16: whenever no pattern of the layer has a non-empty point set, the
\* union is a null result, for a layer of any number of patterns, from
\* create_layer_union and from create_layer_union_for_sequencer.
C16_NullWithoutPoints ==
    ~SomePoints =>
        /\ DisplayDone => union_result.status = "none"
        /\ PlaybackDone => union_data.status = "none"

\* the same for create_layer_union, and for create_layer_union_for_sequencer
\* on layers that do not hold exactly one pattern
NullWithoutPointsButForOne ==
    ~SomePoints =>
        /\ DisplayDone => union_result.status = "none"
        /\ PlaybackDone /\ Len(Patterns) # 1 => union_data.status = "none"

\* a union for playback of one pattern that has no points
OnePointlessPatternPlayed ==
    /\ Len(Patterns) = 1 /\ ~SomePoints
    /\ PlaybackDone /\ union_data.status = "ok"
    /\ DisplayDone /\ union_result.status = "none"

\* the coordinate reference a pattern is held in
Reference(p) == IF p.points_gdf.isNone THEN p.city_gdf.crs ELSE p.points_gdf.crs

OneReference ==
    \E crs \in {Reference(Patterns[1])} :
        /\ DisplayDone /\ union_result.status = "ok" =>
              /\ union_result.union_points_gdf.crs = crs
              /\ union_result.union_city_gdf.crs = crs
        /\ PlaybackDone /\ union_data.status = "ok" /\ Len(Patterns) > 1 =>
              /\ [i \in 1..Len(union_data.geojson_data.features) |->
                     union_data.geojson_data.features[i].geometry.coordinates]
                 = PointsInOrder(Patterns, Len(Patterns), crs)
              /\ \A i \in 1..Len(union_data.city_bounds_data.features) :
                     union_data.city_bounds_data.features[i].geometry =
                         GeomData([kind |-> BoundariesInOrder(Patterns, Len(Patterns))[i].kind,
                                   coords |-> [j \in 1..Len(BoundariesInOrder(Patterns, Len(Patterns))[i].coords) |->
                                                  BoundariesInOrder(Patterns, Len(Patterns))[i].coords[j]
                                                  + CrsOrigin(crs)]])

\* C17: in every layer union the union points and the union boundaries are
\* in one and the same coordinate reference, that of the layer's first
\* pattern, whatever the patterns' references and whichever patterns have
\* no points or no boundary.
C17_OneReferenceOfFirstPattern == Patterns # <<>> => OneReference

\* the same for layers whose patterns all have points and a boundary
OneReferenceWhenAllPresent ==
    (Patterns # <<>> /\ \A i \in 1..Len(Patterns) : Patterns[i] \in GeneratedPatterns)
        => OneReference

\* a union whose points and boundaries are in different references
PointsAndBoundariesApart ==
    /\ DisplayDone /\ union_result.status = "ok"
    /\ union_result.union_points_gdf.crs # union_result.union_city_gdf.crs

\* a union in another reference than the first pattern's
NotFirstReference ==
    /\ DisplayDone /\ union_result.status = "ok"
    /\ union_result.union_points_gdf.crs = union_result.union_city_gdf.crs
    /\ union_result.union_points_gdf.crs # Reference(Patterns[1])

-----------------------------------------------------------------------------
(* The session: stored layers, the selected layer, the two tabs that show  *)
(* unions. A layer is a dict object; stored_layers and current_layer hold  *)
(* references to it, so an append through one is seen through the other.   *)
(* A reference is a name the program never looks at: a new layer object is *)
(* named by its id, the name of the object it may replace in stored_layers *)
(* and which has no reference left by then.                                *)

\* del stored_layers[key]
DelKey(stored, key) == SelectSeq(stored, LAMBDA entry : entry[1] # key)

NoLayer == Layer(0, <<>>, <<>>)

\* an object no reference leads to is gone
Collected(h, stored, current) ==
    [ref \in 1..Len(h) |->
        IF ref = current \/ \E i \in 1..Len(stored) : stored[i][2] = ref
        THEN h[ref] ELSE NoLayer]

\* a new object under the reference ref
Allocated(h, ref, object) ==
    IF ref > Len(h) THEN Append(h, object) ELSE [h EXCEPT ![ref] = object]

NoSessionPattern ==
    [pattern_generated |-> FALSE, pattern |-> Pattern(NoneFrame, NoneFrame, "", "")]

\* the patterns auto_generate_pattern makes in this session
SessionPatterns == {PatternA, PatternB}

\* the patterns held by the stored layers together
RECURSIVE StoredPatterns(_, _, _)
StoredPatterns(stored, h, n) ==
    IF n = 0 THEN 0
    ELSE StoredPatterns(stored, h, n - 1) + Len(h[stored[n][2]].patterns)

\* A name is the sequence of its pieces of text, "Add to " being a piece
\* of its own that no other pieces make up.
\* f"Layer {layer_id}"
LayerName(layer_id) == <<"Layer ", ToString(layer_id)>>

\* what the name field holds when the layer is created: left as it is
\* shown (the default), or a name the user typed
LayerNames == {<<>>, <<"Mix">>, <<"Add to ", "Mix">>}

\* f"Add to {layer['name']}"
LayerOption(name) == <<"Add to ">> \o name

\* selected_option.replace("Add to ", "")
WithoutAddTo(selected_option) == SelectSeq(selected_option, LAMBDA piece : piece # "Add to ")

NoSequencerData(status, mode) ==
    [status |-> status, mode |-> mode, id |-> 0, name |-> <<>>,
     data |-> NoUnionData("none"), background |-> NoUnionResult("none")]

\* render_play_tab: the background map of a layer union
Background(h, current, union) ==
    IF union.has_geodata /\ current # 0
    THEN create_layer_union(h[current]) ELSE NoUnionResult("none")

\* status "none": the function falls through and returns None
prepare_layer_data_for_sequencer(stored, h, current, session) ==
    IF stored # <<>>
    THEN IF current # 0
         THEN LET layer == h[current]
                  union == create_layer_union_for_sequencer(layer)
              IN  IF union.status = "ok"
                  THEN [status |-> "ok", mode |-> "layer_union",
                        id |-> layer.id, name |-> layer.name,
                        data |-> union,
                        background |-> Background(h, current, union)]
                  ELSE NoSequencerData("none", "")
         ELSE NoSequencerData("none", "")
    ELSE IF session.pattern_generated
    THEN [status |-> "ok", mode |-> "legacy_pattern",
          id |-> 0, name |-> <<"Session Pattern">>,
          data |-> SinglePattern(session.pattern),
          background |-> NoUnionResult("none")]
    ELSE NoSequencerData("ok", "no_data")

NoLayerMaps(status) == [status |-> status, maps |-> <<>>]

\* render_layers_tab: one map per stored layer, in the order of the dict
LayerMaps(stored, h) ==
    [status |-> "ok",
     maps |-> [i \in 1..Len(stored) |->
                  [id |-> stored[i][1], union |-> create_layer_union(h[stored[i][2]])]]]

InitLayers ==
    /\ stored_layers = <<>>
    /\ heap = <<>>
    /\ current_layer = 0
    /\ session_pattern = NoSessionPattern
    /\ sequencer_data = NoSequencerData("pending", "")
    /\ layer_maps = NoLayerMaps("pending")
    /\ CoreIdle /\ GeojsonIdle /\ UnionIdle

\* the page is there for the user to act on: the run of the script has
\* rendered the tabs, or has ended with an exception in the Layers tab
Shown == layer_maps.status # "pending"

\* a handler ran: the script runs again and the tabs are rendered anew
Rerun ==
    /\ sequencer_data' = NoSequencerData("pending", "")
    /\ layer_maps' = NoLayerMaps("pending")
    /\ UNCHANGED <<coreVars, geojsonVars, unionVars>>

\* render_create_pattern_tab: a pattern is generated and kept in the session
GeneratePattern ==
    \E pattern \in SessionPatterns :
        /\ Shown
        /\ session_pattern' = [pattern_generated |-> TRUE, pattern |-> pattern]
        /\ UNCHANGED <<stored_layers, heap, current_layer>>
        /\ Rerun

\* add_current_pattern_to_layer("Create New Layer", None)
CreateNewLayer ==
    /\ Shown
    /\ session_pattern.pattern_generated
    /\ StoredPatterns(stored_layers, heap, Len(stored_layers)) < MaxStoredPatterns
    /\ \E new_layer_name \in LayerNames :
       \E layer_id \in {Len(stored_layers) + 1} :
          /\ stored_layers' = SetKey(stored_layers, layer_id, layer_id)
          /\ current_layer' = layer_id
          /\ heap' = Collected(Allocated(heap, layer_id,
                                         Layer(layer_id,
                                               IF new_layer_name # <<>>
                                               THEN new_layer_name
                                               ELSE LayerName(layer_id),
                                               <<session_pattern.pattern>>)),
                               stored_layers', current_layer')
    /\ UNCHANGED session_pattern
    /\ Rerun

\* the layers called layer_name, in the order of the dict
Named(stored, h, layer_name) ==
    SelectSeq(stored, LAMBDA entry : h[entry[2]].name = layer_name)

\* add_current_pattern_to_layer(option, None) for the option that the
\* selector shows for the k-th stored layer: the first stored layer whose
\* name is what replace() leaves of the option gets the pattern; without
\* such a layer nothing is added
AddToLayer(k) ==
    /\ Shown
    /\ session_pattern.pattern_generated
    /\ StoredPatterns(stored_layers, heap, Len(stored_layers)) < MaxStoredPatterns
    /\ k \in 1..Len(stored_layers)
    /\ \E layer_name \in {WithoutAddTo(LayerOption(heap[stored_layers[k][2]].name))} :
       \E found \in {Named(stored_layers, heap, layer_name)} :
          IF found # <<>>
          THEN \E target_layer \in {found[1][2]} :
                  /\ heap' = [heap EXCEPT ![target_layer].patterns =
                                              Append(@, session_pattern.pattern)]
                  /\ current_layer' = target_layer
          ELSE UNCHANGED <<heap, current_layer>>
    /\ UNCHANGED <<stored_layers, session_pattern>>
    /\ Rerun

AddToExistingLayer == \E k \in 1..Len(stored_layers) : AddToLayer(k)

\* render_layers_tab: Select
SelectLayer ==
    /\ Shown
    /\ \E i \in 1..Len(stored_layers) : current_layer' = stored_layers[i][2]
    /\ UNCHANGED <<stored_layers, heap, session_pattern>>
    /\ Rerun

\* an exception leaves a handler of the Layers tab: the run ends with it
Aborted ==
    /\ sequencer_data' = NoSequencerData("pending", "")
    /\ layer_maps' = NoLayerMaps("raise")
    /\ UNCHANGED <<coreVars, geojsonVars, unionVars>>

\* a slip: the selection is left as it is
DeleteLayerKeepingSelection ==
    /\ Shown
    /\ \E i \in 1..Len(stored_layers) :
       \E layer_id \in {stored_layers[i][1]} :
          /\ stored_layers' = DelKey(stored_layers, layer_id)
          /\ current_layer' = current_layer
          /\ heap' = Collected(heap, stored_layers', current_layer')
    /\ UNCHANGED session_pattern
    /\ IF current_layer = 0 THEN Aborted ELSE Rerun

\* render_layers_tab: Delete. The layer is deleted first; with no layer
\* selected, current_layer is None and None.get('id') raises AttributeError
DeleteLayer ==
    /\ Shown
    /\ \E i \in 1..Len(stored_layers) :
       \E layer_id \in {stored_layers[i][1]} :
          /\ stored_layers' = DelKey(stored_layers, layer_id)
          /\ current_layer' = IF current_layer # 0 /\ heap[current_layer].id = layer_id
                              THEN 0 ELSE current_layer
          /\ heap' = Collected(heap, stored_layers', current_layer')
    /\ UNCHANGED session_pattern
    /\ IF current_layer = 0 THEN Aborted ELSE Rerun

\* one run of the script: render_play_tab and render_layers_tab
RenderTabs ==
    /\ sequencer_data.status = "pending"
    /\ sequencer_data' = prepare_layer_data_for_sequencer(stored_layers, heap,
                                                          current_layer, session_pattern)
    /\ layer_maps' = LayerMaps(stored_layers, heap)
    /\ UNCHANGED <<stored_layers, heap, current_layer, session_pattern>>
    /\ UNCHANGED <<coreVars, geojsonVars, unionVars>>

NextLayers ==
    \/ GeneratePattern \/ CreateNewLayer \/ AddToExistingLayer
    \/ SelectLayer \/ DeleteLayer \/ RenderTabs

SpecLayers == InitLayers /\ [][NextLayers]_vars

-----------------------------------------------------------------------------
(* Claims about the session, checked under SpecLayers *)

LayerIds(stored) == {stored[i][1] : i \in 1..Len(stored)}
IsPrefix(s, t) == Len(s) <= Len(t) /\ SubSeq(t, 1, Len(s)) = s

\* every layer that is stored before and after the step keeps its patterns
\* as the first patterns of its list
ListsOnlyGrow ==
    \A i \in 1..Len(stored_layers) : \A j \in 1..Len(stored_layers') :
        stored_layers[i][1] = stored_layers'[j][1] =>
            IsPrefix(heap[stored_layers[i][2]].patterns,
                     heap'[stored_layers'[j][2]].patterns)

\* C19: over any sequence of layer operations (create, add to an existing
\* layer, select, delete) a layer that exists, by its id, in two successive
\* states has its earlier pattern list as a prefix of its later one:
\* patterns are appended, never removed, replaced or reordered.
C19_PatternsOnlyAppended == [][ListsOnlyGrow]_vars

\* the next creation's id is that of a stored layer
NextIdTaken == (Len(stored_layers) + 1) \in LayerIds(stored_layers)

\* the same for every step but a creation under an id that is taken
OnlyAppendedUnlessIdTaken ==
    [][ListsOnlyGrow
       \/ (NextIdTaken /\ heap'[Len(stored_layers) + 1].patterns
                              = <<session_pattern.pattern>>)]_vars

Rendered == sequencer_data.status # "pending" /\ layer_maps.status = "ok"
CurrentIsStored == \E i \in 1..Len(stored_layers) : stored_layers[i][2] = current_layer

FeaturePoints(geojson_data) ==
    [i \in 1..Len(geojson_data.features) |-> geojson_data.features[i].geometry.coordinates]

\* the union holds the points and the boundaries of the patterns, in order,
\* and so ends with those of the last pattern
BuiltFrom(points, boundaries, patterns) ==
    /\ points = PointsInOrder(patterns, Len(patterns), "EPSG:4326")
    /\ Len(boundaries) = Len(BoundariesInOrder(patterns, Len(patterns)))
    /\ \E last \in {patterns[Len(patterns)]} :
       \E own \in {CoordsIn(last.points_gdf, "EPSG:4326")} :
          /\ SubSeq(points, Len(points) - Len(own) + 1, Len(points)) = own
          /\ boundaries[Len(boundaries)].geometry = GeomData(last.city_gdf.rows[1].geometry)

\* the unions of the rendered tabs are those of the lists as they are
RenderedFromCurrentLists ==
    Rendered =>
        /\ stored_layers # <<>> /\ current_layer # 0 =>
              /\ sequencer_data.status = "ok" /\ sequencer_data.mode = "layer_union"
              /\ sequencer_data.id = heap[current_layer].id
              /\ BuiltFrom(FeaturePoints(sequencer_data.data.geojson_data),
                           sequencer_data.data.city_bounds_data.features,
                           heap[current_layer].patterns)
              /\ BuiltFrom(FeaturePoints(sequencer_data.background.geojson_data),
                           sequencer_data.background.city_bounds_data.features,
                           heap[current_layer].patterns)
        /\ Len(layer_maps.maps) = Len(stored_layers)
        /\ \A i \in 1..Len(stored_layers) :
              /\ layer_maps.maps[i].id = stored_layers[i][1]
              /\ BuiltFrom(CoordsIn(layer_maps.maps[i].union.union_points_gdf, "EPSG:4326"),
                           layer_maps.maps[i].union.city_bounds_data.features,
                           heap[stored_layers[i][2]].patterns)

\* a step that makes the list of a stored layer longer puts the session's
\* pattern at its end, selects the layer and has the tabs rendered anew
AppendedAndSelected ==
    \A i \in 1..Len(stored_layers) :
        (/\ stored_layers[i][1] \in LayerIds(stored_layers')
         /\ Len(heap'[stored_layers[i][2]].patterns)
                > Len(heap[stored_layers[i][2]].patterns))
        => /\ heap'[stored_layers[i][2]].patterns
                  = Append(heap[stored_layers[i][2]].patterns, session_pattern.pattern)
           /\ current_layer' = stored_layers[i][2]
           /\ CurrentIsStored'
           /\ ~Rendered'

\* C18: after a pattern is appended to a layer, the layer is the selected
\* one and its list ends with the pattern; the union the Play tab prepares
\* for the selected layer and the union the Layers tab shows for each layer
\* are built, on every rendering, from the layer's list as it is then, so
\* that they end with the appended pattern's points and boundary: no union
\* computed before the append is shown after it.
C18_UnionRecomputedFromCurrentList ==
    [](RenderedFromCurrentLists) /\ [][AppendedAndSelected]_vars

\* C18 witness: B appended to a layer that held A, then the tabs rendered:
\* 8 points and 2 boundaries
C18_Witness ==
    /\ Rendered /\ current_layer # 0
    /\ heap[current_layer].patterns = <<PatternA, PatternB>>
    /\ sequencer_data.data.union_info.total_points = 8
    /\ sequencer_data.data.city_bounds_data.total_features = 2
    /\ \E i \in 1..Len(layer_maps.maps) :
          /\ stored_layers[i][2] = current_layer
          /\ Len(layer_maps.maps[i].union.union_points_gdf.rows) = 8

-----------------------------------------------------------------------------
(* Claims about convert_gdf_to_geojson, checked under SpecGeojson *)

\* the value of a property of a feature
Prop(feature, key) ==
    feature.properties[CHOOSE k \in 1..Len(feature.properties) :
                           feature.properties[k][1] = key][2]

HasProp(feature, key) ==
    Cardinality({k \in 1..Len(feature.properties) : feature.properties[k][1] = key}) = 1

\* the rows whose geometry is a point, a polygon or a multipolygon
KeptRows(frame) ==
    SelectSeq(frame.rows, LAMBDA row : row.geometry.kind \in {"Point", "Polygon", "MultiPolygon"})

ExpectedTag(row) == IF row.geometry.kind = "Point" THEN "point" ELSE "boundary"

-----------------------------------------------------------------------------
(* Totality and grid statistics of the mapper, checked under SpecMapper *)

Called == active_cells_data.status # "pending"
NullInput == city_gdf.isNone \/ points_gdf.isNone
ZeroArea == city_gdf.maxx = city_gdf.minx \/ city_gdf.maxy = city_gdf.miny

\* C21: process_points_to_sequencer is total: a null boundary or a null point
\* set gives the null result, every other input gives a result, also a
\* boundary whose box has zero width or zero height, where every active cell
\* has point_density 0; no call raises.
C21_MapperTotal ==
    Called =>
        /\ active_cells_data.status # "raise"
        /\ NullInput => active_cells_data.status = "none"
        /\ ~NullInput =>
              /\ active_cells_data.status = "ok"
              /\ ZeroArea =>
                    \A i \in 1..Len(Cells) : Cells[i].point_density = R(0)

\* the calls that raise are those with a point and a box of zero width or height
RaisesOnlyOnZeroBox ==
    Called =>
        (active_cells_data.status = "raise"
            <=> (~NullInput /\ ZeroArea /\ Pts # <<>>))

\* a call with a point and a zero-width box has raised
ZeroBoxRaised ==
    /\ Called
    /\ ~NullInput
    /\ city_gdf.maxx = city_gdf.minx
    /\ Pts # <<>>
    /\ active_cells_data.status = "raise"

\* C22: in every result active_cells_count is the number of returned active
\* cells, grid_efficiency is active_cells_count / (steps * tracks) and lies
\* between 0 and 1: there are never more active cells than grid cells.
C22_GridEfficiencyIsFraction ==
    Mapped =>
        /\ active_cells_data.grid_bounds.active_cells_count = Len(Cells)
        /\ active_cells_data.grid_bounds.grid_efficiency
                = Rat(Len(Cells), num_steps * num_tracks)
        /\ Len(Cells) <= num_steps * num_tracks
        /\ RLe(R(0), active_cells_data.grid_bounds.grid_efficiency)
        /\ RLe(active_cells_data.grid_bounds.grid_efficiency, R(1))

NoneWest == \A i \in 1..Len(Pts) : RLe(R(city_gdf.minx), Pts[i].x)

\* the count and the quotient are as stated for every result, and the
\* quotient is a fraction when no point lies west of the box
EfficiencyIsFractionUnlessWest ==
    Mapped =>
        /\ active_cells_data.grid_bounds.active_cells_count = Len(Cells)
        /\ active_cells_data.grid_bounds.grid_efficiency
                = Rat(Len(Cells), num_steps * num_tracks)
        /\ NoneWest => Len(Cells) <= num_steps * num_tracks

\* 25 points in 25 cells of a grid of 12 x 2 cells
MoreCellsThanGrid ==
    /\ Mapped
    /\ num_steps = 12 /\ num_tracks = 2
    /\ Len(Cells) = 25
    /\ \A i \in 1..Len(Cells) : Cells[i].step < 0

-----------------------------------------------------------------------------
(* Claims about the advisor's bands and rounding, checked under SpecAdvisor *)

\* the pair before the even rounding
BeforeRounding ==
    DensityAdjust(AspectAdjust(BaseGrid(Len(points_gdf.geometry)), AspectRatio(city_gdf),
                               DefaultMaxSteps, DefaultMaxTracks),
                  PointDensity(Len(points_gdf.geometry), city_gdf),
                  DefaultMaxSteps, DefaultMaxTracks)

\* C23: with the default caps (32, 8) the advisor returns an even number of
\* steps and an even number of tracks for every non-degenerate input.
C23_GridEven ==
    (Advised /\ ~DegenerateAdvice) =>
        /\ grid_config.num_steps % 2 = 0
        /\ grid_config.num_tracks % 2 = 0

\* C23 witness: a moderately wide boundary whose pair is (9, 3) before the
\* rounding and (10, 4) after it
C23_Witness ==
    /\ Advised
    /\ ~DegenerateAdvice
    /\ BeforeRounding = <<9, 3>>
    /\ grid_config.num_steps = 10
    /\ grid_config.num_tracks = 4

\* the reference computation, as a table of bands
BaseBands == <<<<16, 8, 4>>, <<32, 12, 4>>, <<64, 16, 6>>, <<128, 20, 6>>>>

BasePair(count) ==
    IF \E i \in 1..Len(BaseBands) : count <= BaseBands[i][1]
    THEN LET i == CHOOSE i \in 1..Len(BaseBands) :
                    /\ count <= BaseBands[i][1]
                    /\ \A j \in 1..(i - 1) : count > BaseBands[j][1]
         IN  <<BaseBands[i][2], BaseBands[i][3]>>
    ELSE <<24, 8>>

\* the multipliers of steps and tracks of the first matching aspect band
AspectMultipliers(r) ==
    IF RLt(<<25, 10>>, r) THEN <<<<15, 10>>, <<7, 10>>>>
    ELSE IF RLt(r, <<4, 10>>) THEN <<<<7, 10>>, <<15, 10>>>>
    ELSE IF RLt(<<15, 10>>, r) THEN <<<<12, 10>>, <<9, 10>>>>
    ELSE IF RLt(r, <<7, 10>>) THEN <<<<9, 10>>, <<12, 10>>>>
    ELSE <<R(1), R(1)>>

InEnvelope(g) == <<Clamp(g[1], 8, 32), Clamp(g[2], 2, 8)>>

DensityShift(d) ==
    IF RLt(<<1, 1000>>, d) THEN <<4, 2>>
    ELSE IF RLt(d, <<1, 10000>>) THEN <<-2, -1>>
    ELSE <<0, 0>>

NextEven(n) == 2 * ((n + 1) \div 2)

ReferenceGrid(count, r, d) ==
    LET base == BasePair(count)
        m == AspectMultipliers(r)
        shaped == InEnvelope(<<RTrunc(RMul(R(base[1]), m[1])),
                               RTrunc(RMul(R(base[2]), m[2]))>>)
        shift == DensityShift(d)
        dense == InEnvelope(<<shaped[1] + shift[1], shaped[2] + shift[2]>>)
        even == <<NextEven(dense[1]),
                  IF dense[2] > 2 THEN NextEven(dense[2]) ELSE dense[2]>>
    IN  InEnvelope(even)

\* C24: for every point count, aspect ratio r and density d of a non-empty
\* point set and a boundary the advisor's pair is that of the reference
\* computation by bands (base pair, aspect adjustment, density correction,
\* even rounding, final clip), a function of (count, r, d) alone.
C24_GridIsReference ==
    (Advised /\ ~DegenerateAdvice) =>
        <<grid_config.num_steps, grid_config.num_tracks>>
            = ReferenceGrid(Len(points_gdf.geometry),
                            AspectRatio(city_gdf),
                            PointDensity(Len(points_gdf.geometry), city_gdf))

\* C24 witness: more than 128 points in a very wide, dense boundary: base
\* (24, 8), aspect (32, 5) with the step cap binding, density (32, 7),
\* rounding (32, 8)
C24_Witness ==
    /\ Advised
    /\ ~DegenerateAdvice
    /\ Len(points_gdf.geometry) > 128
    /\ RLt(<<5, 2>>, AspectRatio(city_gdf))
    /\ RLt(<<1, 1000>>, PointDensity(Len(points_gdf.geometry), city_gdf))
    /\ BeforeRounding = <<32, 7>>
    /\ grid_config.num_steps = 32
    /\ grid_config.num_tracks = 8

-----------------------------------------------------------------------------
(* Claims about Grid Alignment, checked under SpecTransform *)

\* the nearest multiple of g, by the distance to it
NearestMultiple(v, g) ==
    LET below == RMul(R(RFloor(RDiv(v, g))), g)
        above == RAdd(below, g)
    IN  IF RLt(RSub(v, below), RSub(above, v)) THEN below
        ELSE IF RLt(RSub(above, v), RSub(v, below)) THEN above
        ELSE IF RFloor(RDiv(v, g)) % 2 = 0 THEN below ELSE above

CellOf(p, g) == <<NearestMultiple(p.x, g), NearestMultiple(p.y, g)>>

OccupiedCells(pts, g) == {CellOf(pts[i], g) : i \in 1..Len(pts)}

Members(pts, cell, g) == SelectSeq(pts, LAMBDA p : CellOf(p, g) = cell)

\* the representative the claim gives a cell
Representative(cell, members) ==
    IF Len(members) = 1 THEN Point(cell[1], cell[2])
    ELSE LET mx == Mean([i \in 1..Len(members) |-> members[i].x])
             my == Mean([i \in 1..Len(members) |-> members[i].y])
         IN  Point(RAdd(cell[1], RMul(<<3, 10>>, RSub(mx, cell[1]))),
                   RAdd(cell[2], RMul(<<3, 10>>, RSub(my, cell[2]))))

AlignmentRun(r) ==
    /\ transformation = "Grid Alignment"
    /\ RLt(R(0), kwargs.grid_size)
    /\ NonEmptyInput(r)

\* C25: Grid Alignment returns exactly one point per distinct occupied cell,
\* so no more points than it was given; a cell of one point is represented
\* by its grid node, a cell of several points by the node plus 30% of the
\* offset of their mean from the node, which lies in the same cell.
C25_OnePointPerCell ==
    \A i \in RunIds :
        AlignmentRun(runs[i]) =>
            LET in == runs[i].input.geometry
                out == runs[i].output.geometry
                g == kwargs.grid_size
            IN  /\ runs[i].status = "ok"
                /\ Len(out) = Cardinality(OccupiedCells(in, g))
                /\ Len(out) <= Len(in)
                /\ {CellOf(out[j], g) : j \in 1..Len(out)} = OccupiedCells(in, g)
                /\ \A j \in 1..Len(out) :
                      out[j] = Representative(CellOf(out[j], g),
                                              Members(in, CellOf(out[j], g), g))

\* C25 witness: three points in two cells of size 10, (0,0) and (3,4) in
\* the cell of the node (0,0), (12,16) alone in the cell of (10,20)
C25_Witness ==
    \E i \in RunIds :
        /\ AlignmentRun(runs[i])
        /\ kwargs.grid_size = R(10)
        /\ runs[i].input.geometry = <<IPoint(0, 0), IPoint(3, 4), IPoint(12, 16)>>
        /\ runs[i].output.geometry = <<Point(<<9, 20>>, <<3, 5>>), IPoint(10, 20)>>

-----------------------------------------------------------------------------
(* Claims about the layer operations, checked under SpecLayers *)

\* the layer stored under an id
LayerOf(stored, h, id) == h[GetKey(stored, id, 0)]

\* every layer stored before the step is stored after it, as it was
AllLayersKept ==
    \A i \in 1..Len(stored_layers) :
        /\ stored_layers[i][1] \in LayerIds(stored_layers')
        /\ LayerOf(stored_layers', heap', stored_layers[i][1])
                = heap[stored_layers[i][2]]

\* C26: layer ids are unique and creation is non-destructive: after any
\* creations and deletions, Create New Layer makes the stored layers one
\* more and leaves every layer stored before present and unchanged (id,
\* name, pattern list).
C26_CreationKeepsLayers ==
    [][CreateNewLayer =>
          /\ Len(stored_layers') = Len(stored_layers) + 1
          /\ AllLayersKept]_vars

\* the same for every creation under an id that no stored layer has
CreationKeepsLayersUnlessIdTaken ==
    [][(CreateNewLayer /\ ~NextIdTaken) =>
          /\ Len(stored_layers') = Len(stored_layers) + 1
          /\ AllLayersKept]_vars

\* the pattern is appended to the k-th stored layer and nothing else of
\* the stored layers changes
AppendedTo(k) ==
    /\ stored_layers' = stored_layers
    /\ \A i \in 1..Len(stored_layers) :
          heap'[stored_layers[i][2]] =
              IF i = k
              THEN [heap[stored_layers[i][2]] EXCEPT
                        !.patterns = Append(@, session_pattern.pattern)]
              ELSE heap[stored_layers[i][2]]

\* the k-th stored layer is the only one of its name, and the name has no
\* "Add to " in it
PlainName(k) ==
    /\ WithoutAddTo(heap[stored_layers[k][2]].name) = heap[stored_layers[k][2]].name
    /\ \A i \in 1..Len(stored_layers) :
          heap[stored_layers[i][2]].name = heap[stored_layers[k][2]].name => i = k

\* C27: adding the current pattern to the layer chosen in the selector
\* appends exactly one pattern to the end of the chosen layer's list and
\* leaves every other stored layer unchanged, whatever the layers' names
\* are: shared by layers, or with the text "Add to " in them.
C27_AddedToChosenLayer ==
    [][\A k \in 1..Len(stored_layers) : AddToLayer(k) => AppendedTo(k)]_vars

\* the same for a chosen layer with a name of its own without "Add to "
AddedToChosenLayerOfPlainName ==
    [][\A k \in 1..Len(stored_layers) :
          (AddToLayer(k) /\ PlainName(k)) => AppendedTo(k)]_vars

\* two layers called Mix, made with pattern A, of which the first has got
\* pattern B
FirstOfTheNameGrown ==
    /\ Len(stored_layers) = 2
    /\ heap[stored_layers[1][2]].name = <<"Mix">>
    /\ heap[stored_layers[2][2]].name = <<"Mix">>
    /\ heap[stored_layers[1][2]].patterns = <<PatternA, PatternB>>
    /\ heap[stored_layers[2][2]].patterns = <<PatternA>>

\* a layer called "Add to Mix" and a layer called Mix, which has got the
\* pattern
OtherLayerGrown ==
    /\ Len(stored_layers) = 2
    /\ heap[stored_layers[1][2]].name = <<"Add to ", "Mix">>
    /\ heap[stored_layers[2][2]].name = <<"Mix">>
    /\ Len(heap[stored_layers[2][2]].patterns) = 2
    /\ current_layer = stored_layers[2][2]

\* C28: in every state reached by creations, additions, selections and
\* deletions the selected layer is null or is the very layer that
\* stored_layers holds under the selected layer's own id; it is never a
\* deleted or a replaced layer.
C28_SelectedLayerIsStored ==
    current_layer # 0 =>
        /\ heap[current_layer].id \in LayerIds(stored_layers)
        /\ GetKey(stored_layers, heap[current_layer].id, 0) = current_layer

\* C28 witness: layer 1 has been deleted, layer 2 is stored alone, has got
\* a second pattern and is the selected layer
C28_Witness ==
    /\ Len(stored_layers) = 1
    /\ stored_layers[1][1] = 2
    /\ current_layer = stored_layers[1][2]
    /\ heap[current_layer].id = 2
    /\ heap[current_layer].patterns = <<PatternA, PatternB>>

\* C29: in every session state, also with layers stored and none
\* selected, prepare_layer_data_for_sequencer returns a record with a mode
\* of layer_union, legacy_pattern or no_data, so that render_play_tab can
\* read it.
C29_SequencerDataIsRecord ==
    sequencer_data.status # "pending" =>
        /\ sequencer_data.status = "ok"
        /\ sequencer_data.mode \in {"layer_union", "legacy_pattern", "no_data"}

\* the record is returned whenever no layer is stored or one is selected
RecordUnlessNoneSelected ==
    (sequencer_data.status # "pending" /\ (stored_layers = <<>> \/ current_layer # 0)) =>
        /\ sequencer_data.status = "ok"
        /\ sequencer_data.mode \in {"layer_union", "legacy_pattern", "no_data"}

\* layers are stored, none is selected, and the Play tab got None
NoneForUnselected ==
    /\ stored_layers # <<>>
    /\ current_layer = 0
    /\ sequencer_data.status = "none"

\* C30: deleting a stored layer succeeds in every state, also with no
\* layer selected: the layer is removed from stored_layers, the selection
\* becomes null exactly if it was the deleted layer, the other layers are
\* unchanged and no exception is raised.
C30_DeleteSucceeds ==
    [][DeleteLayer =>
          /\ Len(stored_layers') = Len(stored_layers) - 1
          /\ \A i \in 1..Len(stored_layers') :
                /\ stored_layers'[i][1] \in LayerIds(stored_layers)
                /\ heap'[stored_layers'[i][2]]
                      = LayerOf(stored_layers, heap, stored_layers'[i][1])
          /\ (current_layer' = 0) <=>
                (current_layer = 0
                    \/ heap[current_layer].id \notin LayerIds(stored_layers'))
          /\ current_layer' # 0 => current_layer' = current_layer
          /\ layer_maps'.status # "raise"]_vars

\* the same but for the exception, which a deletion raises exactly when no
\* layer is selected
DeleteRaisesWhenNoneSelected ==
    [][DeleteLayer =>
          /\ Len(stored_layers') = Len(stored_layers) - 1
          /\ \A i \in 1..Len(stored_layers') :
                /\ stored_layers'[i][1] \in LayerIds(stored_layers)
                /\ heap'[stored_layers'[i][2]]
                      = LayerOf(stored_layers, heap, stored_layers'[i][1])
          /\ (current_layer' = 0) <=>
                (current_layer = 0
                    \/ heap[current_layer].id \notin LayerIds(stored_layers'))
          /\ current_layer' # 0 => current_layer' = current_layer
          /\ (layer_maps'.status = "raise") <=> (current_layer = 0)]_vars

\* a deletion with no layer selected has raised
DeleteRaised ==
    /\ layer_maps.status = "raise"
    /\ current_layer = 0

====
